---- MODULE Spec2Model ----
(***************************************************************************)
(* The dependency graph of nrfbazelify (DependencyGraph in graph.go): the  *)
(* nodes, the edges, the label index, the file-name index, and the         *)
(* operations AddLibraryNode, AddRemapNode, AddOverrideNode,               *)
(* AddDependency (with mergeCycle) and ChangeLabel.                        *)
(*                                                                         *)
(* Labels are modelled by their String() form, the key of labelToID.       *)
(* A file label is a pair <<dir, base>>; Name() is the base.  Srcs and     *)
(* Hdrs are Go slices that are only appended to and whose order depends    *)
(* on map iteration order, so they are modelled as bags.  The progression  *)
(* output of AddDependency is switched off (dotGraphProgressionDir = "").  *)
(* A Go panic or log.Fatalf ends the process: the model records it in      *)
(* last.result and takes no further step.                                  *)
(***************************************************************************)
EXTENDS Integers, FiniteSets, Sequences, Bags, TLC

VARIABLES nodes, edges, labelToID, fileNameToLabel, nextID, conf, walked, last

\* One run of GenerateBuildFiles: the SDK directory and its .bazelifyrc
\* (world), the position of the run (pc), the phases that have started (ran),
\* the locals of addDepsAsEdges and NameGroups, the hint file, the emitted
\* rules and the value the run returned (ret).  hintFile is what the file
\* .bazelifyrc.hint holds: "none" when there is no such file.  oldBuild is
\* the set of directories whose BUILD file still has the content it had
\* before the run.
VARIABLES world, pc, ran, toRead, allResolved, allUnresolved, applied,
          toName, unnamedGroups, hintFile, emitted, ret, oldBuild

\* A label under conversion (package bazel): the label L, a context label
\* ctx, the text a conversion wrote, the result of parsing it, and the
\* conversion applied last.
VARIABLES lab

\* What an earlier run over the same SDK directory produced, once there
\* has been one.
VARIABLES first
NoRun == [set |-> FALSE,
          outcome |-> [ret |-> "running", hint |-> "none", partition |-> {}, naming |-> {}, rules |-> {}]]

gvars == <<nodes, edges, labelToID, fileNameToLabel, nextID>>
rvars == <<world, pc, ran, toRead, allResolved, allUnresolved, applied,
           toName, unnamedGroups, hintFile, emitted, ret, oldBuild, lab, first>>
vars == <<nodes, edges, labelToID, fileNameToLabel, nextID, conf, walked, last,
          world, pc, ran, toRead, allResolved, allUnresolved, applied,
          toName, unnamedGroups, hintFile, emitted, ret, oldBuild, lab, first>>

----------------------------------------------------------------------------
(* Bounds and input universes *)

MaxNodes == 6

NoLabel == "nil"

LibLabels == {"//a", "//b", "//c", "//d"}
OverrideLabels == {"//o"}
RemapLabels == {"//o"}
RenameLabels == {"//n"}
\* uuid.NewString() never repeats: the label of the group node with a given id.
GroupLabelNames == <<"//u1", "//u2", "//u3", "//u4", "//u5", "//u6", "//u7", "//u8", "//u9">>
GroupLabel(id) == GroupLabelNames[id]
GroupLabels == {GroupLabel(i) : i \in 1..MaxNodes}
Labels == LibLabels \cup OverrideLabels \cup RemapLabels \cup RenameLabels \cup GroupLabels

FileNames == {"x.h", "x.c", "y.h", "z.h"}
OverrideFileNames == {"x.h"}

\* The (src, dst) pairs AddDependency is called with: the includes between the
\* libraries, a self include, includes of the overridden and remapped headers,
\* and calls that name an override, a remap, a group or an unused label.
DepInputs ==
  { <<"//a", "//b">>, <<"//b", "//a">>, <<"//b", "//c">>, <<"//c", "//a">>,
    <<"//c", "//d">>, <<"//d", "//c">>, <<"//a", "//c">>, <<"//b", "//d">>, <<"//d", "//a">>,
    <<"//a", "//a">>,
    <<"//a", "//o">>, <<"//o", "//a">>, <<"//d", "//n">> }
    \cup {<<"//a", GroupLabel(i)>> : i \in 1..MaxNodes}
    \cup {<<GroupLabel(i), "//d">> : i \in 1..MaxNodes}

\* The libraries of the headers the walk finds, in the order of the walk: a
\* header with its sibling source, a header of the same name in another
\* directory, and two more headers.
WalkInputs ==
  << [label |-> "//a", srcs |-> SetToBag({<<"a", "x.c">>}), hdrs |-> SetToBag({<<"a", "x.h">>})],
     [label |-> "//b", srcs |-> EmptyBag, hdrs |-> SetToBag({<<"b", "x.h">>})],
     [label |-> "//c", srcs |-> EmptyBag, hdrs |-> SetToBag({<<"c", "y.h">>})],
     [label |-> "//d", srcs |-> EmptyBag, hdrs |-> SetToBag({<<"d", "z.h">>})] >>

\* A library without files (the default library of the remaps) on the label
\* that the override also uses.
EmptyLibInputs == { [label |-> "//o", srcs |-> EmptyBag, hdrs |-> EmptyBag] }

\* The configurations of the caller: how many headers the walk finds, and
\* whether there are overrides and remaps (with their libraries) and labels
\* other than those of groups to rename.
Confs == { [headers |-> 4, overrides |-> FALSE],
           [headers |-> 2, overrides |-> TRUE] }

\* The SDK directory of a run.  The SDK root is the directory "s" of the
\* workspace; it holds x.h with its sibling x.c, y.h, and the directories
\* b (with another x.h) and i (with z.h).
SDKDir == "s"
DiskFiles == {<<"s", "x.h">>, <<"s", "x.c">>, <<"s", "y.h">>,
              <<"s/b", "x.h">>, <<"s/i", "z.h">>}
\* filepath.Walk visits a directory's entries in lexical order: b, i, x.c,
\* x.h, y.h.  These are the headers in the order they are met.
WalkOrder == <<<<"s/b", "x.h">>, <<"s/i", "z.h">>, <<"s", "x.h">>, <<"s", "y.h">>>>

\* Labels of the run, written as Label.String() writes them.
EmptyRemapLabel == "//s:nrfbazelify_empty_remap"
ExternalLabel == "//other:x"

\* A .bazelifyrc: include_overrides (include -> label), remaps (headers),
\* ignore_headers, include_dirs, named_groups (<<first, last>> -> name).
NoOverrides == [t \in {} |-> NoLabel]
NoNamedGroups == [k \in {} |-> ""]
OverrideChoices == { [overrides |-> NoOverrides, remaps |-> {}],
                     [overrides |-> [t \in {"x.h"} |-> ExternalLabel], remaps |-> {}],
                     [overrides |-> [t \in {"x.h"} |-> "//s/b:x"], remaps |-> {}],
                     [overrides |-> NoOverrides, remaps |-> {"x.h"}] }
IncludeDirChoices == {<<>>, <<"s/i">>, <<"s/b">>}
NamedGroupChoices == { NoNamedGroups,
                       [k \in {<<"x.h", "y.h">>} |-> "g"],
                       [k \in {<<"x.h", "y.h">>} |-> "y"],
                       [k \in {<<"i/z.h", "y.h">>} |-> "g"] }
RCStates == {"ok", "missing", "malformed"}

\* The entries filepath.Walk meets under the SDK directory, in its order
\* (the root, then each directory's entries in lexical order, a directory's
\* entries right after the directory): BUILD, b, i, x.c, x.h, y.h.  An
\* entry is the directory it lies in, its name, and whether it is a directory.
WalkEntries ==
  << [dir |-> "", name |-> "s", isDir |-> TRUE],
     [dir |-> "s", name |-> "BUILD", isDir |-> FALSE],
     [dir |-> "s", name |-> "b", isDir |-> TRUE],
     [dir |-> "s/b", name |-> "BUILD", isDir |-> FALSE],
     [dir |-> "s/b", name |-> "x.h", isDir |-> FALSE],
     [dir |-> "s", name |-> "i", isDir |-> TRUE],
     [dir |-> "s/i", name |-> "BUILD", isDir |-> FALSE],
     [dir |-> "s/i", name |-> "z.h", isDir |-> FALSE],
     [dir |-> "s", name |-> "x.c", isDir |-> FALSE],
     [dir |-> "s", name |-> "x.h", isDir |-> FALSE],
     [dir |-> "s", name |-> "y.h", isDir |-> FALSE] >>
Dirs == {"s", "s/b", "s/i"}

\* excludes of .bazelifyrc, made absolute: patterns without wildcards, each
\* the path <<directory, name>> it matches.  buildFiles: the directories
\* that hold a BUILD file before the run.
ExcludeChoices == { {}, {<<"s", "b">>}, {<<"s/i", "z.h">>}, {<<"s/i", "BUILD">>, <<"s/i", "z.h">>} }
BuildFileChoices == { {"s"}, {"s/b", "s/i"} }

\* source_sets of .bazelifyrc: label -> srcs and hdrs, as conf.SourceSets
\* holds them.  A set in the SDK root with x.h, x.c and y.h, and one that
\* takes z.h from the directory i.
NoSourceSets == [l \in {} |-> 0]
SourceSetChoices ==
  { NoSourceSets,
    [l \in {"//s:xy"} |-> [srcs |-> {<<"s", "x.c">>}, hdrs |-> {<<"s", "x.h">>, <<"s", "y.h">>}]],
    [l \in {"//s:yz"} |-> [srcs |-> {}, hdrs |-> {<<"s", "y.h">>, <<"s/i", "z.h">>}]] }

MakeWorld(xh, xc, yh, bxh, izh, ov, ign, dirs, named, rc, stale) ==
  [ includes |-> (<<"s", "x.h">> :> xh) @@ (<<"s", "x.c">> :> xc) @@ (<<"s", "y.h">> :> yh)
                 @@ (<<"s/b", "x.h">> :> bxh) @@ (<<"s/i", "z.h">> :> izh),
    overrides |-> ov.overrides, remaps |-> ov.remaps,
    ignoreHeaders |-> ign, includeDirs |-> dirs, namedGroups |-> named,
    rc |-> rc, staleHint |-> stale,
    excludes |-> {}, buildFiles |-> {}, sourceSets |-> NoSourceSets ]

\* Runs that exercise include resolution: no cycle among the includes.
ResolutionWorlds ==
  { MakeWorld({}, xc, yh, bxh, izh, ov, ign, dirs, NoNamedGroups, "ok", FALSE) :
      xc \in {{}, {"x.h"}},
      yh \in {{}, {"x.h"}, {"z.h"}, {"w.h"}, {"b/x.h"}, {"x.h", "w.h"}, {"x.h", "z.h"},
              {"z.h", "w.h"}},
      bxh \in {{}, {"w.h"}},
      izh \in {{}, {"x.h"}},
      ov \in OverrideChoices,
      ign \in {{}, {"x.h"}},
      dirs \in IncludeDirChoices }

\* Runs that exercise the phases after resolution: headers that include each
\* other, with and without a name for the group they collapse to.
PipelineWorlds ==
  { MakeWorld(xh, {}, yh, {}, izh, ov, {}, <<>>, named, rc, stale) :
      xh \in {{}, {"y.h"}},
      yh \in {{}, {"x.h"}, {"x.h", "z.h"}},
      izh \in {{}, {"y.h"}},
      ov \in {ov \in OverrideChoices : ov.overrides = NoOverrides},
      named \in NamedGroupChoices,
      rc \in RCStates,
      stale \in BOOLEAN }

\* Runs with include_dirs "." (the SDK root): b/x.h includes itself by its
\* path from the root, "b/x.h", which y.h includes too.
SelfIncludeWorlds ==
  { MakeWorld({}, {}, yh, {"b/x.h"}, {}, [overrides |-> NoOverrides, remaps |-> {}],
              {}, dirs, NoNamedGroups, "ok", FALSE) :
      yh \in {{}, {"b/x.h"}},
      dirs \in {<<>>, <<"s">>} }

\* Runs over an SDK directory that holds BUILD files, with and without
\* excludes.
BuildFileWorlds ==
  { [MakeWorld({}, {}, yh, {}, {}, [overrides |-> NoOverrides, remaps |-> {}],
               {}, <<>>, NoNamedGroups, "ok", FALSE)
       EXCEPT !.excludes = ex, !.buildFiles = bf] :
      yh \in {{}, {"x.h"}, {"w.h"}},
      ex \in ExcludeChoices,
      bf \in BuildFileChoices }

\* Runs with a source set whose files include each other and are included
\* from outside.
SourceSetWorlds ==
  { [MakeWorld(xh, xc, yh, {}, izh, [overrides |-> NoOverrides, remaps |-> {}],
               {}, <<>>, NoNamedGroups, "ok", FALSE)
       EXCEPT !.sourceSets = ss] :
      xh \in {{}, {"y.h"}},
      xc \in {{}, {"x.h"}},
      yh \in {{}, {"x.h"}, {"z.h"}},
      izh \in {{}, {"y.h"}},
      ss \in SourceSetChoices \ {NoSourceSets} }

\* Runs with a source set of x.c alone, without headers: x.h is excluded
\* from the walk and its includes are overridden to the source set, which
\* y.h reaches that way and which includes y.h from x.c.
HeaderlessWorlds ==
  { [MakeWorld({}, xc, yh, {}, {}, [overrides |-> [t \in {"x.h"} |-> "//s:xs"], remaps |-> {}],
               {}, <<>>, NoNamedGroups, "ok", FALSE)
       EXCEPT !.excludes = {<<"s", "x.h">>},
              !.sourceSets = [l \in {"//s:xs"} |-> [srcs |-> {<<"s", "x.c">>}, hdrs |-> {}]]] :
      xc \in {{}, {"y.h"}},
      yh \in {{}, {"x.h"}} }

Worlds == ResolutionWorlds \cup PipelineWorlds \cup SelfIncludeWorlds
            \cup BuildFileWorlds \cup SourceSetWorlds \cup HeaderlessWorlds
NoWorld == MakeWorld({}, {}, {}, {}, {}, [overrides |-> NoOverrides, remaps |-> {}],
                     {}, <<>>, NoNamedGroups, "ok", FALSE)

----------------------------------------------------------------------------
(* The graph as a value, so that operations are functions of it *)

Graph == [nodes |-> nodes, edges |-> edges, labelToID |-> labelToID,
          fileNameToLabel |-> fileNameToLabel, nextID |-> nextID]

EmptyFn == [x \in {} |-> 0]

NewDependencyGraph ==
  [nodes |-> EmptyFn, edges |-> {}, labelToID |-> EmptyFn,
   fileNameToLabel |-> EmptyFn, nextID |-> 0]

\* d.labelToID[label.String()], 0 when absent.
LabelID(g, label) ==
  IF label \in DOMAIN g.labelToID THEN g.labelToID[label] ELSE 0

\* d.Node(label): the id of the node, 0 for nil.
Node(g, label) ==
  IF LabelID(g, label) \in DOMAIN g.nodes THEN LabelID(g, label) ELSE 0

Name(f) == f[2]

\* The base names of all srcs and hdrs of a node (library and group nodes only).
FileBag(n) == IF n.kind \in {"lib", "group"} THEN n.srcs (+) n.hdrs ELSE EmptyBag

NamesOf(files) == {Name(f) : f \in BagToSet(files)}

\* A base name that occurs more than once in the list built from the files.
Repeated(files, name) ==
  \E f \in BagToSet(files) :
     /\ Name(f) = name
     /\ \/ CopiesIn(f, files) >= 2
        \/ \E f2 \in BagToSet(files) : f2 # f /\ Name(f2) = name

newLabelResolver == [override |-> NoLabel, possible |-> {}]

empty(l) == l.override = NoLabel /\ l.possible = {}

\* bazel.ParseLabel of the String() of a node's label gives the label back,
\* or an error: the label of an anonymous group is a uuid, written with
\* hyphens, which the pattern of ParseLabel does not accept.
Parses(label) == label \notin GroupLabels

\* validLabels: the override, or the possible labels parsed back from their
\* String(); FatalLabel stands for the log.Fatalf on a parse error.
FatalLabel == "fatal"
validLabels(l) ==
  IF l.override # NoLabel THEN {l.override}
  ELSE {IF Parses(label) THEN label ELSE FatalLabel : label \in l.possible}

\* NodesWithFile returns one Node(label) per valid label (0 stands for a nil
\* entry); -1 stands for the process ended by validLabels.
NodesWithFile(g, name) ==
  IF name \notin DOMAIN g.fileNameToLabel THEN {}
  ELSE LET valid == validLabels(g.fileNameToLabel[name])
       IN IF FatalLabel \in valid THEN {-1} ELSE {Node(g, l) : l \in valid}

IsFileOverridden(g, name) ==
  name \in DOMAIN g.fileNameToLabel /\ g.fileNameToLabel[name].override # NoLabel

Resolver(idx, name) == IF name \in DOMAIN idx THEN idx[name] ELSE newLabelResolver

indexFiles(idx, label, names) ==
  [n \in DOMAIN idx \cup names |->
     IF n \in names
     THEN [override |-> Resolver(idx, n).override, possible |-> Resolver(idx, n).possible \cup {label}]
     ELSE idx[n]]

\* deindexFiles calls log.Fatalf when it meets a name without a resolver: a name
\* that was never indexed, or a repeated name whose resolver the first pass deleted.
deindexFatal(idx, label, files) ==
  \E n \in NamesOf(files) :
     \/ n \notin DOMAIN idx
     \/ /\ Repeated(files, n)
        /\ empty([override |-> idx[n].override, possible |-> idx[n].possible \ {label}])

deindexFiles(idx, label, names) ==
  LET removed == [n \in DOMAIN idx |->
                    IF n \in names
                    THEN [override |-> idx[n].override, possible |-> idx[n].possible \ {label}]
                    ELSE idx[n]]
      keep == {n \in DOMAIN idx : ~(n \in names /\ empty(removed[n]))}
  IN [n \in keep |-> removed[n]]

WithFn(f, k, v) == [x \in DOMAIN f \cup {k} |-> IF x = k THEN v ELSE f[x]]
WithoutFn(f, k) == [x \in DOMAIN f \ {k} |-> f[x]]

LibraryNode(label, srcs, hdrs) ==
  [kind |-> "lib", label |-> label, srcs |-> srcs, hdrs |-> hdrs, isPointer |-> FALSE]
GroupNode(label) ==
  [kind |-> "group", label |-> label, srcs |-> EmptyBag, hdrs |-> EmptyBag, isPointer |-> FALSE]
OverrideNode(label) ==
  [kind |-> "override", label |-> label, srcs |-> EmptyBag, hdrs |-> EmptyBag, isPointer |-> FALSE]
RemapNode(label) ==
  [kind |-> "remap", label |-> label, srcs |-> EmptyBag, hdrs |-> EmptyBag, isPointer |-> FALSE]

\* An operation yields the graph it leaves and what it returned:
\* "ok" (nil error), "error", or "fatal" (panic or log.Fatalf).
\* For a collapse it also tells the node ids of the witness, the group that
\* survives and whether AddGroupNode created it.
NoCollapse == [collapsed |-> FALSE, members |-> {}, group |-> 0, fresh |-> FALSE]
Out(g, result) == [g |-> g, result |-> result, info |-> NoCollapse]

----------------------------------------------------------------------------
(* Node creation *)

\* A label index in which no label is ever found taken.
nodeIDTaken_Never(g, label) == FALSE

\* nodeID: 0 when the label is already in labelToID, else the next id.
nodeIDTaken(g, label) == LabelID(g, label) # 0

nodeID(g, label) ==
  [g EXCEPT !.nextID = g.nextID + 1, !.labelToID = WithFn(g.labelToID, label, g.nextID + 1)]

deleteNode(g, label) ==
  LET id == LabelID(g, label) IN
  IF id = 0 THEN Out(g, "error")
  ELSE IF id \notin DOMAIN g.nodes THEN Out(g, "fatal")
  ELSE LET node == g.nodes[id] IN
       IF node.kind \notin {"lib", "group"} THEN Out(g, "error")
       ELSE IF deindexFatal(g.fileNameToLabel, node.label, FileBag(node)) THEN Out(g, "fatal")
       ELSE Out([g EXCEPT
                   !.fileNameToLabel = deindexFiles(g.fileNameToLabel, node.label, NamesOf(FileBag(node))),
                   !.nodes = WithoutFn(g.nodes, id),
                   !.edges = {e \in g.edges : e[1] # id /\ e[2] # id},
                   !.labelToID = WithoutFn(g.labelToID, label)], "ok")

\* A binding that is never written.
setOverride_Nothing(g, fileName, label) == g

\* resolver.override = label, on a new resolver when the file name has none.
setOverride(g, fileName, label) ==
  [g EXCEPT !.fileNameToLabel =
     WithFn(g.fileNameToLabel, fileName,
            [override |-> label, possible |-> Resolver(g.fileNameToLabel, fileName).possible])]

\* The common prologue of AddLibraryNode and AddRemapNode.
overrideExists(g, label) ==
  Node(g, label) # 0 /\ g.nodes[Node(g, label)].kind = "override"

AddLibraryNodeOp(g, label, srcs, hdrs) ==
  LET d == IF overrideExists(g, label) THEN deleteNode(g, label) ELSE Out(g, "ok") IN
  IF d.result # "ok" THEN d
  ELSE IF nodeIDTaken(d.g, label) THEN Out(d.g, "error")
  ELSE LET g1 == nodeID(d.g, label) IN
       Out([g1 EXCEPT
              !.fileNameToLabel = indexFiles(g1.fileNameToLabel, label, NamesOf(srcs (+) hdrs)),
              !.nodes = WithFn(g1.nodes, g1.nextID, LibraryNode(label, srcs, hdrs))], "ok")

\* AddRemapNode without the test for an override that is already set.
AddRemapNodeOp_Rebind(g, label, fileName) ==
  LET g1 == setOverride(g, fileName, label)
  IN IF nodeIDTaken(g1, label) THEN Out(g1, "error")
     ELSE LET g2 == nodeID(g1, label) IN
          Out([g2 EXCEPT !.nodes = WithFn(g2.nodes, g2.nextID, RemapNode(label))], "ok")

AddRemapNodeOp(g, label, fileName) ==
  LET d == IF overrideExists(g, label) THEN deleteNode(g, label) ELSE Out(g, "ok") IN
  IF d.result # "ok" THEN d
  ELSE IF Resolver(d.g.fileNameToLabel, fileName).override # NoLabel THEN Out(d.g, "error")
  ELSE LET g1 == setOverride(d.g, fileName, label)
       IN IF nodeIDTaken(g1, label) THEN Out(g1, "error")
          ELSE LET g2 == nodeID(g1, label) IN
               Out([g2 EXCEPT !.nodes = WithFn(g2.nodes, g2.nextID, RemapNode(label))], "ok")

AddOverrideNodeOp(g, fileName, label) ==
  IF Resolver(g.fileNameToLabel, fileName).override # NoLabel THEN Out(g, "error")
  ELSE LET g1 == setOverride(g, fileName, label)
       IN IF nodeIDTaken(g1, label) THEN Out(g1, "ok")
          ELSE LET g2 == nodeID(g1, label) IN
               Out([g2 EXCEPT !.nodes = WithFn(g2.nodes, g2.nextID, OverrideNode(label))], "ok")

----------------------------------------------------------------------------
(* AddDependency and the cycle collapse *)

From(g, id) == {e[2] : e \in {x \in g.edges : x[1] = id}}
To(g, id) == {e[1] : e \in {x \in g.edges : x[2] = id}}

\* A search that looks at the direct dependencies of src only.
edgesFromTo_Direct(g, src, dst) ==
  IF dst \in {e[2] : e \in {x \in g.edges : x[1] = src}} THEN {<<src, dst>>} ELSE {}

\* The edges of every path from src to dst, found by a search without a visited set.
RECURSIVE edgesFromTo(_, _, _)
edgesFromTo(g, src, dst) ==
  UNION { IF next = dst THEN {<<src, dst>>}
          ELSE LET childEdges == edgesFromTo(g, next, dst) IN
               IF childEdges = {} THEN {} ELSE {<<src, next>>} \cup childEdges
          : next \in From(g, src) }

\* Whether the search of edgesFromTo returns when it may nest its calls no
\* deeper than depth: it calls itself on every dependency of src other than
\* dst, and keeps no set of the nodes it has visited.
RECURSIVE edgesFromToReturns(_, _, _, _)
edgesFromToReturns(g, src, dst, depth) ==
  \A next \in From(g, src) :
     next = dst \/ (depth > 0 /\ edgesFromToReturns(g, next, dst, depth - 1))

\* groupNode.Absorb(node): the group takes the node's srcs and hdrs, the node keeps none.
Absorb(ns, group, id) ==
  [i \in DOMAIN ns |->
     IF i = group
     THEN [ns[i] EXCEPT !.srcs = ns[group].srcs (+) ns[id].srcs,
                        !.hdrs = ns[group].hdrs (+) ns[id].hdrs]
     ELSE IF i = id THEN [ns[i] EXCEPT !.srcs = EmptyBag, !.hdrs = EmptyBag]
     ELSE ns[i]]

\* The edges of the node are removed and none is given to the group node.
repoint_Drop(es, group, id) == {e \in es : e[1] # id /\ e[2] # id}

\* Repoint all edges from and to the node to the group node.
repoint(es, group, id) ==
  {e \in es : e[1] # id /\ e[2] # id}
    \cup {<<group, e[2]>> : e \in {x \in es : x[1] = id /\ x[2] # group}}
    \cup {<<e[1], group>> : e \in {x \in es : x[2] = id /\ x[1] # group}}

\* One pass of the first loop of mergeCycle over a node of the witness.
mergeNode(g, group, id) ==
  LET node == g.nodes[id]
      glabel == g.nodes[group].label
  IN IF node.kind \notin {"lib", "group"} THEN Out(g, "error")
     ELSE IF deindexFatal(g.fileNameToLabel, node.label, FileBag(node)) THEN Out(g, "fatal")
     ELSE Out([g EXCEPT
                 !.fileNameToLabel =
                    indexFiles(deindexFiles(g.fileNameToLabel, node.label, NamesOf(FileBag(node))),
                               glabel, NamesOf(FileBag(node))),
                 !.nodes = Absorb(g.nodes, group, id),
                 !.edges = repoint(g.edges, group, id)], "ok")

\* A first loop that visits no node.
mergeNodes_None(g, group, todo) == {Out(g, "ok")}

\* The first loop ranges over a Go map: every order of the nodes is possible.
RECURSIVE mergeNodes(_, _, _)
mergeNodes(g, group, todo) ==
  IF todo = {} THEN {Out(g, "ok")}
  ELSE UNION { UNION { IF r.result # "ok" THEN {r} ELSE mergeNodes(r.g, group, todo \ {id})
                       : r \in {mergeNode(g, group, id)} }
               : id \in todo }

\* Remove all other group nodes; the label index is left as it is.
removeGroups(g, ids) ==
  [g EXCEPT !.nodes = [i \in DOMAIN g.nodes \ ids |-> g.nodes[i]],
            !.edges = {e \in g.edges : e[1] \notin ids /\ e[2] \notin ids}]

\* The absorbed libraries are removed like the absorbed groups.
pointToGroup_Removed(g, group, ids) ==
  [g EXCEPT !.nodes = [i \in DOMAIN g.nodes \ ids |-> g.nodes[i]],
            !.edges = {e \in g.edges : e[1] \notin ids /\ e[2] \notin ids}]

\* The edges to the group node without the mark.
pointToGroup_Unmarked(g, group, ids) ==
  [g EXCEPT !.edges = g.edges \cup {<<i, group>> : i \in ids}]

\* Add edges from all remaining nodes to the group node and mark them as pointers.
pointToGroup(g, group, ids) ==
  [g EXCEPT !.nodes = [i \in DOMAIN g.nodes |->
                         IF i \in ids THEN [g.nodes[i] EXCEPT !.isPointer = TRUE] ELSE g.nodes[i]],
            !.edges = g.edges \cup {<<i, group>> : i \in ids}]

\* A search that finds no group node.
findGroupNode_None(g, nodeIDs) == {}

findGroupNode(g, nodeIDs) == {id \in nodeIDs : g.nodes[id].kind = "group"}

AddGroupNode(g) ==
  LET g1 == nodeID(g, GroupLabel(g.nextID + 1)) IN
  [g1 EXCEPT !.nodes = WithFn(g1.nodes, g1.nextID, GroupNode(GroupLabel(g1.nextID)))]

mergeInto(g, nodeIDs, group, fresh) ==
  { LET info == [collapsed |-> TRUE, members |-> nodeIDs, group |-> group, fresh |-> fresh] IN
    IF r.result # "ok" THEN [r EXCEPT !.info = info]
    ELSE LET others == {id \in nodeIDs \ {group} : r.g.nodes[id].kind = "group"}
             g1 == removeGroups(r.g, others)
             rest == nodeIDs \ (others \cup {group})
         IN IF \E id \in rest : g1.nodes[id].kind # "lib"
            THEN [g |-> g1, result |-> "error", info |-> info]
            ELSE [g |-> pointToGroup(g1, group, rest), result |-> "ok", info |-> info]
    : r \in mergeNodes(g, group, nodeIDs \ {group}) }

mergeCycle(g, cyclicEdges) ==
  LET g1 == [g EXCEPT !.edges = g.edges \ cyclicEdges]
      nodeIDs == {e[1] : e \in cyclicEdges} \cup {e[2] : e \in cyclicEdges}
      groups == findGroupNode(g1, nodeIDs)
  IN IF groups = {}
     THEN IF nodeIDTaken(g1, GroupLabel(g1.nextID + 1))
          THEN {[g |-> g1, result |-> "error", info |-> NoCollapse]}
          ELSE mergeInto(AddGroupNode(g1), nodeIDs, g1.nextID + 1, TRUE)
     ELSE UNION {mergeInto(g1, nodeIDs, group, FALSE) : group \in groups}

\* A source that is never redirected.
shiftIfIsPointer_Never(g, id) == id

\* shiftIfIsPointer: 0 stands for the panic of the type assertion on a node that
\* is not a library node, and for the log.Fatalf on a pointer without its edge.
shiftIfIsPointer(g, id) ==
  IF g.nodes[id].kind # "lib" THEN 0
  ELSE IF ~g.nodes[id].isPointer THEN id
  ELSE IF Cardinality(From(g, id)) # 1 THEN 0
  ELSE CHOOSE n \in From(g, id) : TRUE

AddDependencyOp(g, src, dst) ==
  LET srcID == LabelID(g, src)
      dstID == LabelID(g, dst)
  IN IF srcID = 0 \/ dstID = 0 THEN {Out(g, "error")}
     ELSE IF srcID \notin DOMAIN g.nodes \/ dstID \notin DOMAIN g.nodes THEN {Out(g, "fatal")}
     ELSE LET srcNode == shiftIfIsPointer(g, srcID) IN
          IF srcNode = 0 THEN {Out(g, "fatal")}
          ELSE IF <<srcID, dstID>> \in g.edges THEN {Out(g, "ok")}
          ELSE LET cyclicEdges == edgesFromTo(g, dstID, srcNode) IN
               IF cyclicEdges # {} THEN mergeCycle(g, cyclicEdges)
               ELSE IF srcNode = dstID THEN {Out(g, "fatal")}
               ELSE {Out([g EXCEPT !.edges = g.edges \cup {<<srcNode, dstID>>}], "ok")}

----------------------------------------------------------------------------
(* ChangeLabel *)

ChangeLabelOp(g, before, after) ==
  LET id == Node(g, before) IN
  IF id = 0 THEN Out(g, "error")
  ELSE IF Node(g, after) # 0 THEN Out(g, "error")
  ELSE LET files == FileBag(g.nodes[id]) IN
       IF deindexFatal(g.fileNameToLabel, before, files) THEN Out(g, "fatal")
       ELSE Out([g EXCEPT
                   !.nodes[id].label = after,
                   !.fileNameToLabel =
                      indexFiles(deindexFiles(g.fileNameToLabel, before, NamesOf(files)), after, NamesOf(files)),
                   !.labelToID = WithFn(WithoutFn(g.labelToID, before), after, id)], "ok")

----------------------------------------------------------------------------
(* Labels (package bazel): texts are sequences of characters *)

\* The characters of \w that the labels here are written with, and the
\* texts: directories relative to the workspace (<<>> is the workspace
\* itself) and names of libraries, of files and of anonymous groups (a
\* uuid, written with hyphens).
WordChars == {"a", "b", "h"}
LabelDirs == { <<>>, <<"a">>, <<"b">>, <<"a", "/", "b">> }
LabelNames == { <<"a">>, <<"b">>, <<"h">>, <<"a", ".", "h">>, <<"a", "-", "b">> }

\* \w+ and [\w/]*
IsWord(text) == Len(text) > 0 /\ \A i \in 1..Len(text) : text[i] \in WordChars
IsDirText(text) == \A i \in 1..Len(text) : text[i] \in WordChars \cup {"/"}

\* filepath.Base: "." for the empty path, trailing slashes are stripped,
\* "/" for a path of slashes only, else the text after the last slash.
RECURSIVE StripSlashes(_)
StripSlashes(path) ==
  IF Len(path) > 0 /\ path[Len(path)] = "/" THEN StripSlashes(SubSeq(path, 1, Len(path) - 1))
  ELSE path
Base(path) ==
  IF path = <<>> THEN <<".">>
  ELSE LET p == StripSlashes(path)
           slashes == {i \in 1..Len(p) : p[i] = "/"}
       IN IF p = <<>> THEN <<"/">>
          ELSE IF slashes = {} THEN p
          ELSE SubSeq(p, (CHOOSE i \in slashes : \A j \in slashes : j <= i) + 1, Len(p))

\* filepath.Rel(workspaceDir, absDir) for a directory of the workspace.
Rel(dir) == IF dir = <<>> THEN <<".">> ELSE dir

\* bazel.NewLabel(workspaceDir/dir, name, workspaceDir)
NewLabelIn(dir, name) == [dir |-> Rel(dir), name |-> name]

\* Label.String()
String(l) ==
  LET out == <<"/", "/">> \o l.dir
  IN IF Base(l.dir) # l.name THEN out \o <<":">> \o l.name ELSE out

\* Label.RelativeTo(other)
RelativeTo(l, other) == IF l.dir # other.dir THEN String(l) ELSE <<":">> \o l.name

\* labelRegexp.FindStringSubmatch: ^//([\w/]*)(?::(\w+))?$
labelRegexp(text) ==
  LET none == [match |-> FALSE, dir |-> <<>>, name |-> <<>>]
      rest == SubSeq(text, 3, Len(text))
      colons == {i \in 1..Len(rest) : rest[i] = ":"}
  IN IF Len(text) < 2 \/ SubSeq(text, 1, 2) # <<"/", "/">> THEN none
     ELSE IF colons = {}
     THEN IF IsDirText(rest) THEN [match |-> TRUE, dir |-> rest, name |-> <<>>] ELSE none
     ELSE LET c == CHOOSE i \in colons : \A j \in colons : i <= j
              dir == SubSeq(rest, 1, c - 1)
              name == SubSeq(rest, c + 1, Len(rest))
          IN IF IsDirText(dir) /\ IsWord(name) THEN [match |-> TRUE, dir |-> dir, name |-> name]
             ELSE none

\* relativeLabelRegexp.FindStringSubmatch: ^:(\w+)$
relativeLabelRegexp(text) ==
  IF Len(text) > 1 /\ text[1] = ":" /\ IsWord(SubSeq(text, 2, Len(text)))
  THEN [match |-> TRUE, name |-> SubSeq(text, 2, Len(text))]
  ELSE [match |-> FALSE, name |-> <<>>]

Parsed(dir, name) == [err |-> FALSE, label |-> [dir |-> dir, name |-> name]]
ParseError == [err |-> TRUE, label |-> [dir |-> <<>>, name |-> <<>>]]

ParseLabel(text) ==
  LET capture == labelRegexp(text)
  IN IF ~capture.match THEN ParseError
     ELSE IF capture.name = <<>>
     THEN IF capture.dir = <<>> THEN ParseError ELSE Parsed(capture.dir, Base(capture.dir))
     ELSE Parsed(capture.dir, capture.name)

ParseRelativeLabel(other, text) ==
  LET capture == relativeLabelRegexp(text)
  IN IF ~capture.match THEN ParseLabel(text) ELSE Parsed(other.dir, capture.name)

\* The labels the program creates with NewLabel.
CreatedLabels == {NewLabelIn(dir, name) : dir \in LabelDirs, name \in LabelNames}

NoLab == [op |-> "none", L |-> NewLabelIn(<<>>, <<>>), ctx |-> NewLabelIn(<<>>, <<>>),
          text |-> <<>>, out |-> ParseError]

----------------------------------------------------------------------------
(* The state machine: any caller of the graph's exported operations *)

Init ==
  /\ nodes = NewDependencyGraph.nodes
  /\ edges = NewDependencyGraph.edges
  /\ labelToID = NewDependencyGraph.labelToID
  /\ fileNameToLabel = NewDependencyGraph.fileNameToLabel
  /\ nextID = NewDependencyGraph.nextID
  /\ conf \in Confs
  /\ walked = 0
  /\ last = [op |-> "NewDependencyGraph", result |-> "ok", info |-> NoCollapse]
  /\ world = NoWorld
  /\ pc = "caller"
  /\ ran = <<>>
  /\ toRead = {}
  /\ allResolved = <<>>
  /\ allUnresolved = [name \in {} |-> 0]
  /\ applied = 0
  /\ toName = {}
  /\ unnamedGroups = {}
  /\ hintFile = "none"
  /\ emitted = {}
  /\ ret = "running"
  /\ oldBuild = {}
  /\ lab = NoLab
  /\ first = NoRun

\* The process is gone after a panic or log.Fatalf; ids stay within MaxNodes.
Return(op, o) ==
  /\ last.result # "fatal"
  /\ o.g.nextID <= MaxNodes
  /\ UNCHANGED conf
  /\ last' = [op |-> op, result |-> o.result, info |-> o.info]
  /\ IF o.result = "fatal" THEN UNCHANGED gvars
     ELSE /\ nodes' = o.g.nodes
          /\ edges' = o.g.edges
          /\ labelToID' = o.g.labelToID
          /\ fileNameToLabel' = o.g.fileNameToLabel
          /\ nextID' = o.g.nextID

\* The caller adds the library of the next header of the walk, or adds a
\* library again that it has added before, or adds a library without files.
AddLibraryNode ==
  \/ \E i \in 1..Len(WalkInputs) :
        /\ i <= walked + 1
        /\ i <= conf.headers
        /\ walked' = IF i = walked + 1 THEN i ELSE walked
        /\ UNCHANGED rvars
        /\ Return("AddLibraryNode",
                  AddLibraryNodeOp(Graph, WalkInputs[i].label, WalkInputs[i].srcs, WalkInputs[i].hdrs))
  \/ \E in \in EmptyLibInputs :
        /\ conf.overrides
        /\ UNCHANGED <<walked, rvars>>
        /\ Return("AddLibraryNode", AddLibraryNodeOp(Graph, in.label, in.srcs, in.hdrs))

AddRemapNode ==
  \E label \in RemapLabels, fileName \in OverrideFileNames :
     /\ conf.overrides
     /\ UNCHANGED <<walked, rvars>>
     /\ Return("AddRemapNode", AddRemapNodeOp(Graph, label, fileName))

AddOverrideNode ==
  \E fileName \in OverrideFileNames, label \in OverrideLabels \cup {"//a"} :
     /\ conf.overrides
     /\ UNCHANGED <<walked, rvars>>
     /\ Return("AddOverrideNode", AddOverrideNodeOp(Graph, fileName, label))

AddDependency ==
  \E in \in DepInputs :
     \E o \in AddDependencyOp(Graph, in[1], in[2]) :
        UNCHANGED <<walked, rvars>> /\ Return("AddDependency", o)

ChangeLabel ==
  \E before \in GroupLabels \cup RenameLabels \cup (IF conf.overrides THEN OverrideLabels \cup {"//a"} ELSE {}),
     after \in RenameLabels :
     /\ UNCHANGED <<walked, rvars>>
     /\ Return("ChangeLabel", ChangeLabelOp(Graph, before, after))

Next ==
  \/ AddLibraryNode
  \/ AddRemapNode
  \/ AddOverrideNode
  \/ AddDependency
  \/ ChangeLabel

Spec == Init /\ [][Next]_vars

----------------------------------------------------------------------------
(* Notions the properties are stated with *)

LiveNodes == DOMAIN nodes

IsLibrary(g, id) == id \in DOMAIN g.nodes /\ g.nodes[id].kind = "lib"
IsGroup(g, id) == id \in DOMAIN g.nodes /\ g.nodes[id].kind = "group"
IsPointer(g, id) == IsLibrary(g, id) /\ g.nodes[id].isPointer
IsPlainLibrary(g, id) == IsLibrary(g, id) /\ ~g.nodes[id].isPointer

\* The nodes reachable from the nodes of front by one or more edges.
RECURSIVE Reach(_, _, _)
Reach(es, front, seen) ==
  LET next == {e[2] : e \in {x \in es : x[1] \in front}} \ seen IN
  IF next = {} THEN seen ELSE Reach(es, next, seen \cup next)

NoCycle(g) == \A id \in DOMAIN g.nodes : id \notin Reach(g.edges, {id}, {})

\* The library and group nodes that carry a file with the base name.
Carriers(g, name) ==
  {id \in DOMAIN g.nodes :
     g.nodes[id].kind \in {"lib", "group"} /\ name \in NamesOf(FileBag(g.nodes[id]))}

RECURSIVE BagSum(_, _)
BagSum(f, ids) ==
  IF ids = {} THEN EmptyBag
  ELSE LET id == CHOOSE x \in ids : TRUE IN f[id] (+) BagSum(f, ids \ {id})

\* What a collapse has to leave of the files: the srcs and hdrs of all nodes of ids.
SrcsOf(g, ids) == BagSum([id \in ids |-> g.nodes[id].srcs], ids)
HdrsOf(g, ids) == BagSum([id \in ids |-> g.nodes[id].hdrs], ids)

\* The groups among the nodes of a cycle witness, before the collapse.
GroupsIn(g, ids) == {id \in ids : IsGroup(g, id)}

\* A step in which AddDependency has collapsed a cycle and returned.
CollapseStep ==
  last'.op = "AddDependency" /\ last'.result = "ok" /\ last'.info.collapsed

----------------------------------------------------------------------------
(* The SDK walker: labels and paths of the run *)

\* strings.TrimSuffix(name, ".h")
TrimH == ("x.h" :> "x") @@ ("y.h" :> "y") @@ ("z.h" :> "z")

\* bazel.NewLabel(dir, name, workspaceDir).String(): "//dir:name", the name
\* left out when it is the last element of dir (never the case here).
LabelStrings ==
  (<<"s", "x">> :> "//s:x") @@ (<<"s", "y">> :> "//s:y") @@ (<<"s/b", "x">> :> "//s/b:x")
  @@ (<<"s/i", "z">> :> "//s/i:z") @@ (<<"s", "x_remap">> :> "//s:x_remap")
  @@ (<<"s", "nrfbazelify_empty_remap">> :> EmptyRemapLabel)
  @@ (<<"s", "g">> :> "//s:g") @@ (<<"s", "xy">> :> "//s:xy") @@ (<<"s", "yz">> :> "//s:yz")
  @@ (<<"s", "xs">> :> "//s:xs")
NewLabel(dir, name) == LabelStrings[<<dir, name>>]

\* Label.Dir() of the labels of library nodes.
LabelDir ==
  ("//s:x" :> "s") @@ ("//s:y" :> "s") @@ ("//s/b:x" :> "s/b") @@ ("//s/i:z" :> "s/i")
  @@ (EmptyRemapLabel :> "s") @@ ("//s:g" :> "s") @@ ("//s:xy" :> "s") @@ ("//s:yz" :> "s")
  @@ ("//s:xs" :> "s")

\* filepath.Dir and filepath.Base of an include text.
TokenDir(t) == IF t = "b/x.h" THEN "b" ELSE "."
TokenBase(t) == IF t = "b/x.h" THEN "x.h" ELSE t

\* filepath.Clean(filepath.Join(searchPath, dep)) as <<directory, base>>;
\* "s/b" is the only directory of this disk that an include text reaches
\* through a sub-directory.
JoinPath(searchPath, dep) ==
  IF TokenDir(dep) = "." THEN <<searchPath, dep>>
  ELSE IF searchPath = "s" /\ TokenDir(dep) = "b" THEN <<"s/b", TokenBase(dep)>>
  ELSE <<"", TokenBase(dep)>>

\* The slices a map iteration can produce from the keys S.
RECURSIVE Orders(_)
Orders(S) ==
  IF S = {} THEN {<<>>}
  ELSE UNION { {<<x>> \o r : r \in Orders(S \ {x})} : x \in S }

----------------------------------------------------------------------------
(* The SDK walker: readDepsOnce *)

\* The includes of every src and hdr of the node, read by readIncludes.
readIncludesOf(w, n) ==
  UNION { w.includes[f] : f \in BagToSet(n.srcs (+) n.hdrs) \cap DOMAIN w.includes }

\* The deps left after the ignore_headers filter and the filter of the
\* node's own srcs and hdrs (NewLabel(node dir, dep) against their labels).
filteredDeps(w, n) ==
  { dep \in readIncludesOf(w, n) \ w.ignoreHeaders :
      <<LabelDir[n.label], dep>> \notin BagToSet(n.srcs (+) n.hdrs) }

\* The deps that take no override.
overriddenDeps_None(g, deps) == {}

\* The deps the override loop resolves.
overriddenDeps(g, deps) == { dep \in deps : IsFileOverridden(g, dep) }

searchPaths(w, n) == <<LabelDir[n.label]>> \o w.includeDirs

\* One probe of the search loop: the label of the header found at
\* searchPath/dep when it is a file of the disk and a node of the graph.
probe(g, searchPath, dep) ==
  LET search == JoinPath(searchPath, dep)
  IN IF search \notin DiskFiles THEN NoLabel
     ELSE LET depLabel == NewLabel(search[1], TrimH[search[2]])
          IN IF Node(g, depLabel) = 0 THEN NoLabel ELSE depLabel

\* The label the search loop resolves dep to: the first search path whose
\* probe succeeds, NoLabel when none does.
searchDep(g, w, n, dep) ==
  LET paths == searchPaths(w, n)
      hits == { i \in 1..Len(paths) : probe(g, paths[i], dep) # NoLabel }
  IN IF hits = {} THEN NoLabel
     ELSE probe(g, paths[CHOOSE i \in hits : \A j \in hits : i <= j], dep)

\* What readDepsOnce does with one dep that the filters left.
resolveDep(g, w, n, dep) ==
  IF dep \in overriddenDeps(g, {dep})
  THEN LET ids == NodesWithFile(g, dep)
       IN IF ids \cap {0, -1} # {} THEN [how |-> "fatal", dst |-> NoLabel, possible |-> {}]
          ELSE [how |-> "override", dst |-> g.nodes[CHOOSE id \in ids : TRUE].label, possible |-> {}]
  ELSE IF searchDep(g, w, n, dep) # NoLabel
  THEN [how |-> "search", dst |-> searchDep(g, w, n, dep), possible |-> {}]
  ELSE LET ids == NodesWithFile(g, dep)
       IN IF ids \cap {0, -1} # {} THEN [how |-> "fatal", dst |-> NoLabel, possible |-> {}]
          ELSE IF Cardinality(ids) # 1
          THEN [how |-> "unresolved", dst |-> NoLabel, possible |-> {g.nodes[id].label : id \in ids}]
          ELSE [how |-> "index", dst |-> g.nodes[CHOOSE id \in ids : TRUE].label, possible |-> {}]

\* readDepsOnce: the resolved deps in the order of the three loops, each
\* loop in map order, and the unresolved deps.
readDepsOnce(g, w, id) ==
  LET n == g.nodes[id]
      deps == filteredDeps(w, n)
      by(how) == { dep \in deps : resolveDep(g, w, n, dep).how = how }
      edge(dep) == <<n.label, resolveDep(g, w, n, dep).dst>>
      slices(how) == { [i \in 1..Len(o) |-> edge(o[i])] : o \in Orders(by(how)) }
  IN IF by("fatal") # {}
     THEN { [result |-> "fatal", resolved |-> <<>>, unresolved |-> {}] }
     ELSE { [result |-> "ok", resolved |-> a \o b \o c,
             unresolved |-> { [includedBy |-> {n.label}, dstFileName |-> dep,
                               possible |-> resolveDep(g, w, n, dep).possible] : dep \in by("unresolved") }] :
            a \in slices("override"), b \in slices("search"), c \in slices("index") }

\* A later requester of a name replaces the entry of the name.
deconflict_Replace(all, unresolved) ==
  [ name \in DOMAIN all \cup {u.dstFileName : u \in unresolved} |->
      IF \E u \in unresolved : u.dstFileName = name
      THEN LET u == CHOOSE u \in unresolved : u.dstFileName = name
           IN [includedBy |-> u.includedBy, possible |-> u.possible]
      ELSE all[name] ]

\* addDepsAsEdges merges a node's unresolved deps into allUnresolved: the
\* first entry of a name stays, later requesters are appended to it.
deconflict(all, unresolved) ==
  [ name \in DOMAIN all \cup {u.dstFileName : u \in unresolved} |->
      IF name \notin DOMAIN all
      THEN LET u == CHOOSE u \in unresolved : u.dstFileName = name
           IN [includedBy |-> u.includedBy, possible |-> u.possible]
      ELSE IF \E u \in unresolved : u.dstFileName = name
      THEN [includedBy |-> all[name].includedBy \cup
                           UNION {u.includedBy : u \in {v \in unresolved : v.dstFileName = name}},
            possible |-> all[name].possible]
      ELSE all[name] ]

----------------------------------------------------------------------------
(* GenerateBuildFiles: one run over the SDK directory *)

\* The label of the remap node of a header: "<short name>_remap" in the SDK
\* directory.
RemapName == ("x.h" :> "x_remap")
RemapLabelOf(header) == NewLabel(SDKDir, RemapName[header])

\* addFilesAsNodes for one header: the library named after the header, with
\* the header and its sibling .c file when that exists.
headerLibrary(hdr) ==
  LET src == <<hdr[1], IF hdr[2] = "x.h" THEN "x.c" ELSE "none.c">>
  IN [label |-> NewLabel(hdr[1], TrimH[hdr[2]]),
      srcs |-> IF src \in DiskFiles THEN SetToBag({src}) ELSE EmptyBag,
      hdrs |-> SetToBag({hdr})]

\* addOverrideNodes: AddOverrideNode for every include_overrides entry, up
\* to the first error.
RECURSIVE addOverrideNodes(_, _, _)
addOverrideNodes(g, overrides, todo) ==
  IF todo = {} THEN Out(g, "ok")
  ELSE LET name == CHOOSE name \in todo : TRUE
       IN \* bind before recursing
          CHOOSE r \in { IF o.result # "ok" THEN o ELSE addOverrideNodes(o.g, overrides, todo \ {name}) :
                         o \in {AddOverrideNodeOp(g, name, overrides[name])} } : TRUE

\* addRemapNodes: AddRemapNode for every label setting, then AddLibraryNode
\* for the libraries of the remaps (the empty default library).
RECURSIVE addRemapSettings(_, _)
addRemapSettings(g, todo) ==
  IF todo = {} THEN Out(g, "ok")
  ELSE LET header == CHOOSE header \in todo : TRUE
       IN CHOOSE r \in { IF o.result # "ok" THEN o ELSE addRemapSettings(o.g, todo \ {header}) :
                         o \in {AddRemapNodeOp(g, RemapLabelOf(header), header)} } : TRUE

addRemapNodes(g, remaps) ==
  LET o == addRemapSettings(g, remaps)
  IN IF o.result # "ok" \/ remaps = {} THEN o
     ELSE AddLibraryNodeOp(o.g, EmptyRemapLabel, EmptyBag, EmptyBag)

\* hdr.FileRelativeTo(the group's directory), and the place sort.Strings
\* gives it among the headers of the disk.
FileRelativeTo == (<<"s/b", "x.h">> :> "b/x.h") @@ (<<"s/i", "z.h">> :> "i/z.h")
                  @@ (<<"s", "x.h">> :> "x.h") @@ (<<"s", "y.h">> :> "y.h")
SortedHdrs == <<"b/x.h", "i/z.h", "x.h", "y.h">>

\* hdrs[0] and hdrs[len(hdrs)-1] of the sorted relative headers of a group.
groupKey(n) ==
  LET hdrs == {FileRelativeTo[h] : h \in BagToSet(n.hdrs)}
      at == {i \in 1..Len(SortedHdrs) : SortedHdrs[i] \in hdrs}
  IN <<SortedHdrs[CHOOSE i \in at : \A j \in at : i <= j],
       SortedHdrs[CHOOSE i \in at : \A j \in at : i >= j]>>

\* hdr.String() of the file label of a header, "//dir:name", and the place
\* sort.Strings gives it among the headers of the disk.
HdrString == (<<"s/b", "x.h">> :> "//s/b:x.h") @@ (<<"s/i", "z.h">> :> "//s/i:z.h")
             @@ (<<"s", "x.h">> :> "//s:x.h") @@ (<<"s", "y.h">> :> "//s:y.h")
SortedHdrStrings == <<"//s/b:x.h", "//s/i:z.h", "//s:x.h", "//s:y.h">>

\* unnamedGroupsHint: the named_groups record appended for each unnamed
\* group, with hdrs[0] and hdrs[len(hdrs)-1] of the sorted header strings.
unnamedGroupsHint(g, unnamed) ==
  { LET hdrs == {HdrString[h] : h \in BagToSet(g.nodes[id].hdrs)}
        at == {i \in 1..Len(SortedHdrStrings) : SortedHdrStrings[i] \in hdrs}
    IN [group |-> id,
        name |-> g.nodes[id].label,
        first_hdr |-> SortedHdrStrings[CHOOSE i \in at : \A j \in at : i <= j],
        last_hdr |-> SortedHdrStrings[CHOOSE i \in at : \A j \in at : i >= j]]
    : id \in unnamed }

\* len(groupNode.Hdrs)
lenHdrs(n) == BagCardinality(n.hdrs)

\* The directory of the BUILD file a rule is written to: Label.Dir(); the
\* labels of groups and remaps lie in the SDK directory.
RuleDir(label) == IF label \in DOMAIN LabelDir THEN LabelDir[label] ELSE SDKDir

\* The rules OutputBuildFiles writes: one per library, group and remap node.
rulesOf(g) == { g.nodes[id].label : id \in {i \in DOMAIN g.nodes : g.nodes[i].kind # "override"} }

\* What a run leaves behind: the value it returned (or that it died), the
\* hint file, the files of each group node once all edges are in the graph,
\* the name of each group once NameGroups is through, and the rules of
\* OutputBuildFiles: makeLibrary's name, srcs, hdrs and deps of every
\* library and group node.  The label of an anonymous group is a fresh uuid
\* in every run; "anonymous" stands for it.
Anonymised(label) == IF label \in GroupLabels THEN "anonymous" ELSE label
makeLibrary(g, id) ==
  [name |-> Anonymised(g.nodes[id].label),
   srcs |-> BagToSet(g.nodes[id].srcs),
   hdrs |-> BagToSet(g.nodes[id].hdrs),
   deps |-> {Anonymised(g.nodes[d].label) : d \in From(g, id) \cap DOMAIN g.nodes}]
RunGroups == {id \in DOMAIN nodes : nodes[id].kind = "group"}
Ended == pc = "done" \/ last.result = "fatal"
Outcome ==
  LET edgesDone == last.result # "fatal" /\ (hintFile = "unresolvedDeps" \/ "name" \in {ran[i] : i \in 1..Len(ran)})
      named == last.result # "fatal" /\ pc \in {"RemoveStaleHint", "done"} /\ hintFile # "unresolvedDeps"
                /\ "name" \in {ran[i] : i \in 1..Len(ran)}
      wrote == "emit" \in {ran[i] : i \in 1..Len(ran)}
  IN [ret |-> IF last.result = "fatal" THEN "fatal" ELSE ret,
      hint |-> hintFile,
      partition |-> IF edgesDone THEN {BagToSet(FileBag(nodes[id])) : id \in RunGroups} ELSE {},
      naming |-> IF named THEN {<<BagToSet(FileBag(nodes[id])), Anonymised(nodes[id].label)>> : id \in RunGroups}
                 ELSE {},
      rules |-> IF wrote THEN {makeLibrary(Graph, id) : id \in {i \in DOMAIN nodes : nodes[i].kind \in {"lib", "group"}}}
                ELSE {}]

RunInit ==
  /\ nodes = NewDependencyGraph.nodes
  /\ edges = NewDependencyGraph.edges
  /\ labelToID = NewDependencyGraph.labelToID
  /\ fileNameToLabel = NewDependencyGraph.fileNameToLabel
  /\ nextID = NewDependencyGraph.nextID
  /\ conf = [headers |-> Len(WalkOrder), overrides |-> TRUE]
  /\ walked = 0
  /\ last = [op |-> "NewDependencyGraph", result |-> "ok", info |-> NoCollapse]
  /\ world \in Worlds
  /\ pc = "ReadConfig"
  /\ ran = <<>>
  /\ toRead = {}
  /\ allResolved = <<>>
  /\ allUnresolved = [name \in {} |-> 0]
  /\ applied = 0
  /\ toName = {}
  /\ unnamedGroups = {}
  /\ hintFile = IF world.staleHint THEN "stale" ELSE "none"
  /\ emitted = {}
  /\ ret = "running"
  /\ oldBuild = world.buildFiles
  /\ lab = NoLab
  /\ first = NoRun

\* A graph operation of the run has returned o.
Graph_Becomes(op, o) ==
  /\ last' = [op |-> op, result |-> o.result, info |-> o.info]
  /\ IF o.result = "fatal" THEN UNCHANGED gvars
     ELSE /\ nodes' = o.g.nodes
          /\ edges' = o.g.edges
          /\ labelToID' = o.g.labelToID
          /\ fileNameToLabel' = o.g.fileNameToLabel
          /\ nextID' = o.g.nextID

\* A step that is no graph operation.
Graph_Stays(op, result) ==
  /\ last' = [op |-> op, result |-> result, info |-> NoCollapse]
  /\ UNCHANGED gvars

\* The phase is entered when its first step is taken.
Enter(phase) == IF Len(ran) > 0 /\ ran[Len(ran)] = phase THEN ran ELSE Append(ran, phase)

Running == last.result # "fatal" /\ ret = "running"

\* ReadConfig: a missing or malformed .bazelifyrc ends the run.
RunReadConfig ==
  /\ Running /\ pc = "ReadConfig"
  /\ ran' = Enter("config")
  /\ IF world.rc = "ok"
     THEN pc' = "addSourceSetFiles" /\ ret' = ret /\ Graph_Stays("ReadConfig", "ok")
     ELSE pc' = "done" /\ ret' = "error" /\ Graph_Stays("ReadConfig", "error")
  /\ UNCHANGED <<first, lab, conf, walked, world, oldBuild, toRead, allResolved, allUnresolved, applied,
                 toName, unnamedGroups, hintFile, emitted>>

\* addSourceSetFiles: AddLibraryNode for every source set, in the order of
\* the map, up to the first error.
RECURSIVE addSourceSetFiles(_, _, _)
addSourceSetFiles(g, sets, todo) ==
  IF todo = {} THEN {Out(g, "ok")}
  ELSE UNION { UNION { IF o.result # "ok" THEN {o} ELSE addSourceSetFiles(o.g, sets, todo \ {l})
                       : o \in {AddLibraryNodeOp(g, l, SetToBag(sets[l].srcs), SetToBag(sets[l].hdrs))} }
               : l \in todo }

\* PopulateGraph starts with the libraries of the source sets.
RunAddSourceSetFiles ==
  /\ Running /\ pc = "addSourceSetFiles"
  /\ \E o \in addSourceSetFiles(Graph, world.sourceSets, DOMAIN world.sourceSets) :
        /\ Graph_Becomes("addSourceSetFiles", o)
        /\ IF o.result # "ok" THEN pc' = "done" /\ ret' = "error"
           ELSE pc' = "addFilesAsNodes" /\ ret' = ret
  /\ ran' = Enter("walk")
  /\ UNCHANGED <<first, lab, conf, walked, world, oldBuild, toRead, allResolved, allUnresolved, applied,
                 toName, unnamedGroups, hintFile, emitted>>

\* conf.SourceSetsByFile: the files the source sets claim.
SourceSetsByFile(w) ==
  UNION {w.sourceSets[l].srcs \cup w.sourceSets[l].hdrs : l \in DOMAIN w.sourceSets}

\* The path of a directory entry, and the directories under a path.
EntryDirPath == (<<"", "s">> :> "s") @@ (<<"s", "b">> :> "s/b") @@ (<<"s", "i">> :> "s/i")
IsUnder(dir, top) == dir = top \/ (top = "s" /\ dir \in Dirs)

\* filepath.Walk meets the entry: it is on the disk and in no directory
\* for which addFilesAsNodes returned filepath.SkipDir.
Met(w, e) ==
  /\ e.name = "BUILD" => e.dir \in w.buildFiles
  /\ ~\E x \in w.excludes : x \in DOMAIN EntryDirPath /\ IsUnder(e.dir, EntryDirPath[x])
nextEntry(w, from) ==
  LET later == {i \in (from + 1)..Len(WalkEntries) : Met(w, WalkEntries[i])}
  IN IF later = {} THEN 0 ELSE CHOOSE i \in later : \A j \in later : i <= j

\* What addFilesAsNodes does with an entry: nothing, the removal of a BUILD
\* file, or the library of a header.
addFilesAsNodes(w, e) ==
  IF <<e.dir, e.name>> \in w.excludes THEN "skip"
  ELSE IF e.isDir THEN "skip"
  ELSE IF e.name = "BUILD" THEN "remove"
  ELSE IF e.name \notin DOMAIN TrimH THEN "skip"
  ELSE IF <<e.dir, e.name>> \in SourceSetsByFile(w) THEN "skip"
  ELSE "library"

\* filepath.Walk calls addFilesAsNodes on the next entry it meets.
RunAddFilesAsNodes ==
  /\ Running /\ pc = "addFilesAsNodes"
  /\ LET i == nextEntry(world, walked)
         e == WalkEntries[i]
         what == addFilesAsNodes(world, e)
         lib == headerLibrary(<<e.dir, e.name>>)
         o == IF what = "library" THEN AddLibraryNodeOp(Graph, lib.label, lib.srcs, lib.hdrs)
              ELSE Out(Graph, "ok")
     IN /\ Graph_Becomes(IF what = "library" THEN "AddLibraryNode" ELSE "addFilesAsNodes", o)
        /\ walked' = i
        /\ oldBuild' = IF what = "remove" THEN oldBuild \ {e.dir} ELSE oldBuild
        /\ ran' = Enter("walk")
        /\ IF o.result # "ok" THEN pc' = "done" /\ ret' = "error"
           ELSE /\ ret' = ret
                /\ pc' = IF nextEntry(world, i) = 0 THEN "addOverrideNodes" ELSE pc
  /\ UNCHANGED <<first, lab, conf, world, toRead, allResolved, allUnresolved, applied,
                 toName, unnamedGroups, hintFile, emitted>>

RunAddOverrideNodes ==
  /\ Running /\ pc = "addOverrideNodes"
  /\ LET o == addOverrideNodes(Graph, world.overrides, DOMAIN world.overrides)
     IN /\ Graph_Becomes("addOverrideNodes", o)
        /\ IF o.result # "ok" THEN pc' = "done" /\ ret' = "error"
           ELSE pc' = "addRemapNodes" /\ ret' = ret
  /\ UNCHANGED <<first, lab, conf, walked, world, oldBuild, ran, toRead, allResolved, allUnresolved, applied,
                 toName, unnamedGroups, hintFile, emitted>>

\* addRemapNodes, and the snapshot graph.Nodes() that addDepsAsEdges loops over.
RunAddRemapNodes ==
  /\ Running /\ pc = "addRemapNodes"
  /\ LET o == addRemapNodes(Graph, world.remaps)
     IN /\ Graph_Becomes("addRemapNodes", o)
        /\ IF o.result # "ok" THEN pc' = "done" /\ ret' = "error" /\ toRead' = toRead
           ELSE /\ pc' = "readDeps" /\ ret' = ret
                /\ toRead' = {id \in DOMAIN o.g.nodes : o.g.nodes[id].kind = "lib"}
  /\ UNCHANGED <<first, lab, conf, walked, world, oldBuild, ran, allResolved, allUnresolved, applied,
                 toName, unnamedGroups, hintFile, emitted>>

\* One round of the first loop of addDepsAsEdges: readDepsOnce of a library
\* node, in the order graph.Nodes() happens to give.
RunReadDepsOnce ==
  /\ Running /\ pc = "readDeps"
  /\ \E id \in toRead : \E o \in readDepsOnce(Graph, world, id) :
        /\ Graph_Stays("readDepsOnce", o.result)
        /\ ran' = Enter("resolve")
        /\ toRead' = toRead \ {id}
        /\ allResolved' = allResolved \o o.resolved
        /\ allUnresolved' = deconflict(allUnresolved, o.unresolved)
        /\ pc' = IF toRead \ {id} = {} THEN "addEdges" ELSE pc
  /\ UNCHANGED <<first, lab, conf, walked, world, oldBuild, applied, toName, unnamedGroups, hintFile, emitted, ret>>

\* A resolved dep is applied as soon as it is there, between two rounds of
\* the first loop.
RunAddDependency_Early ==
  /\ Running /\ pc \in {"readDeps", "addEdges"} /\ applied < Len(allResolved)
  /\ \E o \in AddDependencyOp(Graph, allResolved[applied + 1][1], allResolved[applied + 1][2]) :
        /\ Graph_Becomes("AddDependency", o)
        /\ applied' = applied + 1
        /\ IF o.result = "error" THEN pc' = "done" /\ ret' = "error"
           ELSE pc' = pc /\ ret' = ret
  /\ UNCHANGED <<first, lab, conf, walked, world, oldBuild, ran, toRead, allResolved, allUnresolved,
                 toName, unnamedGroups, hintFile, emitted>>

\* One round of the second loop of addDepsAsEdges.
RunAddDependency ==
  /\ Running /\ pc = "addEdges" /\ applied < Len(allResolved)
  /\ \E o \in AddDependencyOp(Graph, allResolved[applied + 1][1], allResolved[applied + 1][2]) :
        /\ Graph_Becomes("AddDependency", o)
        /\ applied' = applied + 1
        /\ IF o.result = "error" THEN pc' = "done" /\ ret' = "error"
           ELSE pc' = pc /\ ret' = ret
  /\ UNCHANGED <<first, lab, conf, walked, world, oldBuild, ran, toRead, allResolved, allUnresolved,
                 toName, unnamedGroups, hintFile, emitted>>

\* PopulateGraph returned unresolved deps and the run goes on to NameGroups.
RunWriteUnresolvedDepsHint_GoOn ==
  /\ Running /\ pc = "addEdges" /\ applied = Len(allResolved)
  /\ DOMAIN allUnresolved # {}
  /\ ran' = Enter("name")
  /\ toName' = {id \in DOMAIN nodes : nodes[id].kind = "group"}
  /\ pc' = "NameGroups"
  /\ Graph_Stays("NameGroups", "ok")
  /\ UNCHANGED <<first, lab, conf, walked, world, oldBuild, toRead, allResolved, allUnresolved, applied,
                 unnamedGroups, hintFile, emitted, ret>>

\* PopulateGraph returned unresolved deps: the hint file is written and the
\* run returns the error that asks for the resolutions.
RunWriteUnresolvedDepsHint ==
  /\ Running /\ pc = "addEdges" /\ applied = Len(allResolved)
  /\ DOMAIN allUnresolved # {}
  /\ hintFile' = "unresolvedDeps"
  /\ pc' = "done" /\ ret' = "error"
  /\ Graph_Stays("WriteUnresolvedDepsHint", "error")
  /\ UNCHANGED <<first, lab, conf, walked, world, oldBuild, ran, toRead, allResolved, allUnresolved, applied,
                 toName, unnamedGroups, emitted>>

\* NameGroups starts: the snapshot depGraph.Nodes() of its loop.
RunNameGroups ==
  /\ Running /\ pc = "addEdges" /\ applied = Len(allResolved)
  /\ DOMAIN allUnresolved = {}
  /\ ran' = Enter("name")
  /\ toName' = {id \in DOMAIN nodes : nodes[id].kind = "group"}
  /\ pc' = "NameGroups"
  /\ Graph_Stays("NameGroups", "ok")
  /\ UNCHANGED <<first, lab, conf, walked, world, oldBuild, toRead, allResolved, allUnresolved, applied,
                 unnamedGroups, hintFile, emitted, ret>>

\* One round of the loop of NameGroups, on a group node.  The value that
\* ChangeLabel returns is dropped.
RunNameGroup ==
  /\ Running /\ pc = "NameGroups"
  /\ \E id \in toName :
       LET key == groupKey(nodes[id])
           named == key \in DOMAIN world.namedGroups
       IN /\ toName' = toName \ {id}
          /\ IF lenHdrs(nodes[id]) < 2
             THEN /\ pc' = "done" /\ ret' = "error"
                  /\ UNCHANGED unnamedGroups
                  /\ Graph_Stays("NameGroups", "error")
             ELSE IF ~named
             THEN /\ unnamedGroups' = unnamedGroups \cup {id}
                  /\ UNCHANGED <<pc, ret>>
                  /\ Graph_Stays("NameGroups", "ok")
             ELSE /\ UNCHANGED <<pc, ret, unnamedGroups>>
                  /\ LET o == ChangeLabelOp(Graph, nodes[id].label,
                                            NewLabel(SDKDir, world.namedGroups[key]))
                     IN Graph_Becomes("ChangeLabel", o)
  /\ UNCHANGED <<first, lab, conf, walked, world, oldBuild, ran, toRead, allResolved, allUnresolved, applied,
                 hintFile, emitted>>

RunWriteUnnamedGroupsHint ==
  /\ Running /\ pc = "NameGroups" /\ toName = {}
  /\ unnamedGroups # {}
  /\ hintFile' = "unnamedGroups"
  /\ pc' = "done" /\ ret' = "error"
  /\ Graph_Stays("WriteUnnamedGroupsHint", "error")
  /\ UNCHANGED <<first, lab, conf, walked, world, oldBuild, ran, toRead, allResolved, allUnresolved, applied,
                 toName, unnamedGroups, emitted>>

RunOutputBuildFiles ==
  /\ Running /\ pc = "NameGroups" /\ toName = {}
  /\ unnamedGroups = {}
  /\ ran' = Enter("emit")
  /\ emitted' = rulesOf(Graph)
  /\ oldBuild' = oldBuild \ {RuleDir(l) : l \in rulesOf(Graph)}
  /\ pc' = "RemoveStaleHint"
  /\ Graph_Stays("OutputBuildFiles", "ok")
  /\ UNCHANGED <<first, lab, conf, walked, world, toRead, allResolved, allUnresolved, applied,
                 toName, unnamedGroups, hintFile, ret>>

\* The run returns nil and leaves the hint file as it is.
RunRemoveStaleHint_Keep ==
  /\ Running /\ pc = "RemoveStaleHint"
  /\ pc' = "done" /\ ret' = "ok"
  /\ Graph_Stays("RemoveStaleHint", "ok")
  /\ UNCHANGED <<first, lab, conf, walked, world, oldBuild, ran, toRead, allResolved, allUnresolved, applied,
                 toName, unnamedGroups, hintFile, emitted>>

\* RemoveStaleHint, after which the run reports and returns nil.
RunRemoveStaleHint ==
  /\ Running /\ pc = "RemoveStaleHint"
  /\ hintFile' = "none"
  /\ pc' = "done" /\ ret' = "ok"
  /\ Graph_Stays("RemoveStaleHint", "ok")
  /\ UNCHANGED <<first, lab, conf, walked, world, oldBuild, ran, toRead, allResolved, allUnresolved, applied,
                 toName, unnamedGroups, emitted>>

RunNext ==
  \/ RunReadConfig
  \/ RunAddSourceSetFiles
  \/ RunAddFilesAsNodes
  \/ RunAddOverrideNodes
  \/ RunAddRemapNodes
  \/ RunReadDepsOnce
  \/ RunAddDependency
  \/ RunWriteUnresolvedDepsHint
  \/ RunNameGroups
  \/ RunNameGroup
  \/ RunWriteUnnamedGroupsHint
  \/ RunOutputBuildFiles
  \/ RunRemoveStaleHint

RunSpec == RunInit /\ [][RunNext]_vars

\* A step of the run is possible exactly when it has neither returned nor
\* died: every action asks for Running, none leaves pc = "done", and in
\* every other state one of them is enabled.
CanStep == Running /\ pc # "done"

\* The run is one sequential process that keeps executing until it returns
\* or dies: weak fairness of RunNext, with CanStep for ENABLED <<RunNext>>_vars.
FairRunSpec == RunInit /\ [][RunNext]_vars /\ ([]<>~CanStep \/ []<><<RunNext>>_vars)

----------------------------------------------------------------------------
(* Two runs over the same SDK directory *)

\* The first run has ended; the SDK directory is put back as it was and
\* GenerateBuildFiles is called again.
RunAgain ==
  /\ Ended /\ ~first.set
  /\ first' = [set |-> TRUE, outcome |-> Outcome]
  /\ nodes' = NewDependencyGraph.nodes
  /\ edges' = NewDependencyGraph.edges
  /\ labelToID' = NewDependencyGraph.labelToID
  /\ fileNameToLabel' = NewDependencyGraph.fileNameToLabel
  /\ nextID' = NewDependencyGraph.nextID
  /\ walked' = 0
  /\ last' = [op |-> "NewDependencyGraph", result |-> "ok", info |-> NoCollapse]
  /\ pc' = "ReadConfig"
  /\ ran' = <<>>
  /\ toRead' = {}
  /\ allResolved' = <<>>
  /\ allUnresolved' = [name \in {} |-> 0]
  /\ applied' = 0
  /\ toName' = {}
  /\ unnamedGroups' = {}
  /\ hintFile' = IF world.staleHint THEN "stale" ELSE "none"
  /\ emitted' = {}
  /\ ret' = "running"
  /\ oldBuild' = world.buildFiles
  /\ UNCHANGED <<conf, world, lab>>

TwoRunsNext ==
  \/ RunNext
  \/ RunAgain

TwoRunsSpec == RunInit /\ [][TwoRunsNext]_vars

----------------------------------------------------------------------------
(* The conversions of a label, for any label the program creates *)

LabelInit ==
  /\ nodes = NewDependencyGraph.nodes
  /\ edges = NewDependencyGraph.edges
  /\ labelToID = NewDependencyGraph.labelToID
  /\ fileNameToLabel = NewDependencyGraph.fileNameToLabel
  /\ nextID = NewDependencyGraph.nextID
  /\ conf = [headers |-> 0, overrides |-> FALSE]
  /\ walked = 0
  /\ last = [op |-> "NewDependencyGraph", result |-> "ok", info |-> NoCollapse]
  /\ world = NoWorld
  /\ pc = "caller"
  /\ ran = <<>>
  /\ toRead = {}
  /\ allResolved = <<>>
  /\ allUnresolved = [name \in {} |-> 0]
  /\ applied = 0
  /\ toName = {}
  /\ unnamedGroups = {}
  /\ hintFile = "none"
  /\ emitted = {}
  /\ ret = "running"
  /\ oldBuild = {}
  /\ first = NoRun
  /\ \E L \in CreatedLabels, ctx \in CreatedLabels :
        lab = [op |-> "NewLabel", L |-> L, ctx |-> ctx, text |-> <<>>, out |-> ParseError]

LabelFrame ==
  UNCHANGED <<gvars, conf, walked, last, world, pc, ran, toRead, allResolved, allUnresolved,
              applied, toName, unnamedGroups, hintFile, emitted, ret, oldBuild, first>>

LabelString ==
  /\ lab.op = "NewLabel"
  /\ lab' = [lab EXCEPT !.op = "String", !.text = String(lab.L)]
  /\ LabelFrame

LabelParseLabel ==
  /\ lab.op = "String"
  /\ lab' = [lab EXCEPT !.op = "ParseLabel", !.out = ParseLabel(lab.text)]
  /\ LabelFrame

LabelRelativeTo ==
  /\ lab.op = "NewLabel"
  /\ lab' = [lab EXCEPT !.op = "RelativeTo", !.text = RelativeTo(lab.L, lab.ctx)]
  /\ LabelFrame

LabelParseRelativeLabel ==
  /\ lab.op = "RelativeTo"
  /\ lab' = [lab EXCEPT !.op = "ParseRelativeLabel", !.out = ParseRelativeLabel(lab.ctx, lab.text)]
  /\ LabelFrame

LabelNext ==
  \/ LabelString
  \/ LabelParseLabel
  \/ LabelRelativeTo
  \/ LabelParseRelativeLabel

LabelSpec == LabelInit /\ [][LabelNext]_vars

----------------------------------------------------------------------------
(* Properties *)

\* C1: after every AddDependency call that returns, whether it added an edge,
\* found the edge or collapsed a cycle, the graph has no directed cycle.
C1_Acyclic ==
  (last.op = "AddDependency" /\ last.result # "fatal") => NoCycle(Graph)

\* A collapse has happened and the graph has edges left.
C1_Witness ==
  /\ last.op = "AddDependency" /\ last.result = "ok" /\ last.info.collapsed
  /\ \E e \in edges : ~IsPointer(Graph, e[1])

\* C2: for every base name without an override, NodesWithFile returns exactly
\* the live library and group nodes that carry a file of that name.
C2_IndexConsistent ==
  \A name \in FileNames :
     ~IsFileOverridden(Graph, name) => NodesWithFile(Graph, name) = Carriers(Graph, name)

\* The index itself is exact: for every base name without an override the
\* possible labels are the labels of the live library and group nodes that
\* carry a file of that name.
IndexExact ==
  \A name \in FileNames :
     ~IsFileOverridden(Graph, name) =>
        {Node(Graph, l) : l \in Resolver(fileNameToLabel, name).possible} = Carriers(Graph, name)

\* C3: the label index is a bijection between the labels of the live nodes and
\* their ids: every entry leads to a live node with that label, and every
\* live node is found under its label.
C3_LabelBijection ==
  /\ \A label \in DOMAIN labelToID :
        labelToID[label] \in LiveNodes /\ nodes[labelToID[label]].label = label
  /\ \A id \in LiveNodes : LabelID(Graph, nodes[id].label) = id

\* C4: every pointer library node has no srcs and no hdrs and has exactly one
\* outgoing edge, which leads to a live group node.
C4_PointerShape ==
  \A id \in LiveNodes :
     IsPointer(Graph, id) =>
        /\ nodes[id].srcs = EmptyBag /\ nodes[id].hdrs = EmptyBag
        /\ Cardinality(From(Graph, id)) = 1
        /\ \A to \in From(Graph, id) : IsGroup(Graph, to)

\* A collapse has absorbed and removed a group, and pointers point to the survivor.
C4_Witness ==
  /\ last.op = "AddDependency" /\ last.result = "ok"
  /\ last.info.collapsed /\ ~last.info.fresh
  /\ \E id \in last.info.members : id \notin LiveNodes
  /\ Cardinality({id \in LiveNodes : IsPointer(Graph, id) /\ From(Graph, id) = {last.info.group}}) >= 4

\* C5: AddDependency from the label of a pointer and AddDependency from the
\* label of the group it points to leave the same graph and return the same.
C5_PointerRedirection ==
  \A id \in LiveNodes :
     (IsPointer(Graph, id) /\ Cardinality(From(Graph, id)) = 1) =>
        \A group \in From(Graph, id) :
           \A dst \in DOMAIN labelToID :
              AddDependencyOp(Graph, nodes[id].label, dst)
                 = AddDependencyOp(Graph, nodes[group].label, dst)

\* C6: when a base name is overridden, NodesWithFile returns exactly one node,
\* the live node at the override label.
C6_OverrideExclusive ==
  \A name \in FileNames :
     IsFileOverridden(Graph, name) =>
        /\ Node(Graph, fileNameToLabel[name].override) # 0
        /\ NodesWithFile(Graph, name) = {Node(Graph, fileNameToLabel[name].override)}

\* C7: a collapse of a cycle of plain library nodes creates exactly one node, a
\* group; every member stays under its label as a pointer whose only edge
\* leads to the group; the group has the srcs and hdrs of the members; and
\* the group depends on every node outside the cycle that a member depended on.
C7_CollapseOfLibraries ==
  [][ (CollapseStep /\ \A m \in last'.info.members : IsPlainLibrary(Graph, m)) =>
        LET members == last'.info.members
            group == last'.info.group
        IN /\ DOMAIN nodes' \ DOMAIN nodes = {group}
           /\ DOMAIN nodes \subseteq DOMAIN nodes'
           /\ nodes'[group].kind = "group"
           /\ \A m \in members :
                 /\ nodes'[m].kind = "lib" /\ nodes'[m].isPointer
                 /\ nodes'[m].label = nodes[m].label
                 /\ nodes[m].label \in DOMAIN labelToID' /\ labelToID'[nodes[m].label] = m
                 /\ {e[2] : e \in {x \in edges' : x[1] = m}} = {group}
           /\ nodes'[group].srcs = SrcsOf(Graph, members)
           /\ nodes'[group].hdrs = HdrsOf(Graph, members)
           /\ \A e \in edges :
                 (e[1] \in members /\ e[2] \notin members) => <<group, e[2]>> \in edges'
    ]_vars

\* A cycle of three plain libraries has been collapsed, and the group has a dependency.
C7_Witness ==
  /\ last.op = "AddDependency" /\ last.result = "ok"
  /\ last.info.collapsed /\ last.info.fresh
  /\ Cardinality(last.info.members) >= 3
  /\ \A m \in last.info.members : IsPointer(Graph, m)
  /\ From(Graph, last.info.group) # {}

\* C8: a collapse whose witness touches groups reuses one of them and creates no
\* node; the other groups of the witness are removed; the survivor has the
\* srcs and hdrs of all nodes of the witness; every pointer to a group of the
\* witness points to the survivor.  A collapse whose witness touches no group
\* creates exactly one node, a group.
C8_GroupReuse ==
  [][ CollapseStep =>
        LET members == last'.info.members
            group == last'.info.group
            groups == GroupsIn(Graph, members)
        IN IF groups # {}
           THEN /\ ~last'.info.fresh
                /\ group \in groups
                /\ DOMAIN nodes' = DOMAIN nodes \ (groups \ {group})
                /\ nodes'[group].kind = "group"
                /\ nodes'[group].srcs = SrcsOf(Graph, members)
                /\ nodes'[group].hdrs = HdrsOf(Graph, members)
                /\ \A id \in DOMAIN nodes :
                      (IsPointer(Graph, id) /\ From(Graph, id) \cap groups # {})
                         => {e[2] : e \in {x \in edges' : x[1] = id}} = {group}
           ELSE /\ last'.info.fresh
                /\ DOMAIN nodes' \ DOMAIN nodes = {group}
                /\ nodes'[group].kind = "group"
    ]_vars

\* A collapse has reused a group and removed another one.
C8_Witness ==
  /\ last.op = "AddDependency" /\ last.result = "ok"
  /\ last.info.collapsed /\ ~last.info.fresh
  /\ IsGroup(Graph, last.info.group)
  /\ \E id \in last.info.members : id \notin LiveNodes /\ id # last.info.group

\* C9: AddDependency returns an error and leaves the graph as it is when src
\* or dst is not the label of a node of the graph.
C9_UnknownNode ==
  \A src \in Labels, dst \in Labels :
     (Node(Graph, src) = 0 \/ Node(Graph, dst) = 0) =>
        \A o \in AddDependencyOp(Graph, src, dst) : o.result = "error" /\ o.g = Graph

\* C10: when the edge from src, redirected to its group if src is a pointer, to
\* dst exists, AddDependency returns success, changes nothing and collapses nothing.
C10_ExistingEdge ==
  \A src \in DOMAIN labelToID, dst \in DOMAIN labelToID :
     LET srcID == Node(Graph, src)
         from == IF IsPointer(Graph, srcID) THEN From(Graph, srcID) ELSE {srcID}
     IN (srcID # 0 /\ \E f \in from : <<f, Node(Graph, dst)>> \in edges) =>
           AddDependencyOp(Graph, src, dst) = {Out(Graph, "ok")}

\* The arguments AddLibraryNode is called with, for any label.
LibraryArgs ==
  {[label |-> l, srcs |-> in.srcs, hdrs |-> in.hdrs] :
     l \in Labels, in \in {WalkInputs[1]} \cup EmptyLibInputs}

\* C11: AddLibraryNode returns an error when a library, group or remap node has
\* the label, and the failed call leaves the graph as it is: nodes with their
\* files, edges, label index and file index.
C11_LabelInUse ==
  \A in \in LibraryArgs :
     (Node(Graph, in.label) # 0
        /\ nodes[Node(Graph, in.label)].kind \in {"lib", "group", "remap"}) =>
        AddLibraryNodeOp(Graph, in.label, in.srcs, in.hdrs) = Out(Graph, "error")

\* AddLibraryNode has been refused in a graph with a library, a group and a remap node.
C11_Witness ==
  /\ last.op = "AddLibraryNode" /\ last.result = "error"
  /\ \A kind \in {"lib", "group", "remap"} : \E id \in LiveNodes : nodes[id].kind = kind

\* C12: AddLibraryNode on a label that an override node has succeeds: the
\* override node is gone, the label leads to the new library node, its files
\* are indexed and the override binding of the file name still names the label.
C12_ReplacesOverrideNode ==
  \A in \in LibraryArgs :
     overrideExists(Graph, in.label) =>
        LET o == AddLibraryNodeOp(Graph, in.label, in.srcs, in.hdrs)
            id == Node(o.g, in.label)
        IN /\ o.result = "ok"
           /\ id # 0 /\ id \notin LiveNodes
           /\ o.g.nodes[id] = LibraryNode(in.label, in.srcs, in.hdrs)
           /\ \A name \in NamesOf(in.srcs (+) in.hdrs) :
                 in.label \in o.g.fileNameToLabel[name].possible
           /\ \A name \in FileNames :
                 (IsFileOverridden(Graph, name) /\ fileNameToLabel[name].override = in.label)
                    => (IsFileOverridden(o.g, name) /\ NodesWithFile(o.g, name) = {id})

\* C13: AddOverrideNode and AddRemapNode for a file name that has an override
\* return an error, create no node and leave the binding, with all of the
\* graph, as it is; and no step ever changes a binding that is set.
C13_Rejects ==
  \A name \in FileNames, label \in Labels :
     IsFileOverridden(Graph, name) =>
        /\ AddOverrideNodeOp(Graph, name, label) = Out(Graph, "error")
        /\ AddRemapNodeOp(Graph, label, name) = Out(Graph, "error")

C13_Keeps ==
  \A name \in FileNames :
     IsFileOverridden(Graph, name) =>
        /\ name \in DOMAIN fileNameToLabel'
        /\ fileNameToLabel'[name].override = fileNameToLabel[name].override

C13_SingleOverride == []C13_Rejects /\ [][C13_Keeps]_vars

\* A second binding for an overridden file name has been refused.
C13_Witness ==
  /\ last.op \in {"AddOverrideNode", "AddRemapNode"} /\ last.result = "error"
  /\ \E name \in FileNames : IsFileOverridden(Graph, name)
  /\ \E id \in LiveNodes : nodes[id].kind = "lib"

\* C14: AddOverrideNode for a file name without override and a label that a live
\* node has returns success, creates no node, leaves that node, its files and
\* all edges as they are, and binds the override: IsFileOverridden is true
\* and NodesWithFile returns that node.
C14_BindsExistingNode ==
  \A name \in FileNames, label \in Labels :
     (Node(Graph, label) # 0 /\ ~IsFileOverridden(Graph, name)) =>
        LET o == AddOverrideNodeOp(Graph, name, label) IN
        /\ o.result = "ok"
        /\ o.g.nodes = nodes /\ o.g.edges = edges
        /\ o.g.labelToID = labelToID /\ o.g.nextID = nextID
        /\ IsFileOverridden(o.g, name)
        /\ NodesWithFile(o.g, name) = {Node(Graph, label)}

\* The override of a file name has been bound to a library node that is there.
C14_Witness ==
  /\ last.op = "AddOverrideNode" /\ last.result = "ok"
  /\ \E name \in FileNames :
        /\ IsFileOverridden(Graph, name)
        /\ Node(Graph, fileNameToLabel[name].override) # 0
        /\ nodes[Node(Graph, fileNameToLabel[name].override)].kind = "lib"
        /\ Carriers(Graph, name) # {}

\* C15: a ChangeLabel that succeeds changes the name only: one node has a new
\* label, it keeps its id and its files, all edges stay, the label index
\* leads from the new label to the node and has lost the old one, and the
\* node's file names are indexed under the new label and not under the old,
\* as candidate or as override.
\* ChangeLabel returns an error and changes nothing when before is not the
\* label of a node or after is.
C15_Renamed ==
  (last'.op = "ChangeLabel" /\ last'.result = "ok") =>
     \E id \in LiveNodes :
        LET before == nodes[id].label
            after == nodes'[id].label
        IN /\ after # before
           /\ DOMAIN nodes' = DOMAIN nodes
           /\ \A i \in LiveNodes : nodes'[i] = IF i = id THEN [nodes[i] EXCEPT !.label = after] ELSE nodes[i]
           /\ edges' = edges /\ nextID' = nextID
           /\ DOMAIN labelToID' = (DOMAIN labelToID \ {before}) \cup {after}
           /\ labelToID'[after] = id
           /\ \A l \in DOMAIN labelToID \ {before, after} : labelToID'[l] = labelToID[l]
           /\ \A name \in NamesOf(FileBag(nodes[id])) :
                 /\ name \in DOMAIN fileNameToLabel'
                 /\ after \in fileNameToLabel'[name].possible
                 /\ before \notin fileNameToLabel'[name].possible
           /\ \A name \in DOMAIN fileNameToLabel' :
                 /\ before \notin fileNameToLabel'[name].possible
                 /\ fileNameToLabel'[name].override # before

C15_Refused ==
  \A before \in Labels, after \in Labels :
     (Node(Graph, before) = 0 \/ Node(Graph, after) # 0) =>
        ChangeLabelOp(Graph, before, after) = Out(Graph, "error")

C15_ChangeLabel == []C15_Refused /\ [][C15_Renamed]_vars

\* The library nodes the first loop of addDepsAsEdges reads.
LibraryNodes == {id \in LiveNodes : nodes[id].kind = "lib"}

\* The elements of a slice.
Range(q) == {q[i] : i \in 1..Len(q)}

leftForIndex(id) ==
  { dep \in filteredDeps(world, nodes[id]) :
      ~IsFileOverridden(Graph, dep) /\ searchDep(Graph, world, nodes[id], dep) = NoLabel }

\* The labels of the nodes that carry a file name.
CarrierLabels(name) == {nodes[c].label : c \in Carriers(Graph, name)}

\* The includes of a library node with other than one candidate.
unresolvedOf(id) == {dep \in leftForIndex(id) : Cardinality(Carriers(Graph, dep)) # 1}

\* The first loop of addDepsAsEdges has read every library node and no edge
\* has been added yet.
AllRead == pc = "addEdges" /\ applied = 0

PhaseOrder == <<"config", "walk", "resolve", "name", "emit">>

\* PopulateGraph has returned a list of unresolved deps that is not empty.
UnresolvedReported ==
  Running /\ pc = "addEdges" /\ applied = Len(allResolved) /\ DOMAIN allUnresolved # {}

\* NameGroups has returned a list of unnamed groups that is not empty.
UnnamedReported ==
  Running /\ pc = "NameGroups" /\ toName = {} /\ unnamedGroups # {}

NeverNamed == "name" \notin Range(ran)
NeverEmitted == "emit" \notin Range(ran) /\ emitted = {}

AnonymousLabels == Range(GroupLabelNames)

\* C19: rule files are emitted only when every group node carries a
\* configured name: in every state of a run in which OutputBuildFiles has
\* been reached, no group node has its anonymous label.
C19_EmitOnlyNamed ==
  "emit" \in Range(ran) =>
     \A id \in LiveNodes : nodes[id].kind = "group" => nodes[id].label \notin AnonymousLabels

\* What .bazelifyrc.hint held before the run.
HintBefore == IF world.staleHint THEN "stale" ELSE "none"

\* C20: after a run that returned success there is no hint file in the SDK
\* directory, whether or not there was one before the run; a run that failed
\* in ReadConfig has written no hint file: the file is as it was before.
C20_NoStaleHint ==
  /\ ret = "ok" => hintFile = "none" /\ "emit" \in Range(ran)
  /\ (ret = "error" /\ last.op = "ReadConfig") => hintFile = HintBefore /\ ran = <<"config">>

\* A run over an SDK directory with a hint file returned success, and the
\* hint file is gone.
C20_Witness ==
  /\ ret = "ok"
  /\ world.staleHint
  /\ last.op = "RemoveStaleHint"
  /\ hintFile = "none"

\* C25: after a collapse with member set M and surviving group G, for every
\* node x outside M and other than G: G has an edge to x iff some member had
\* an edge to x before, and x has an edge to G iff x had an edge to some
\* member before; G has no edge to itself; and the edges between two nodes
\* outside M (and other than G) are the edges they had before.
C25_EdgeRerouting ==
  [][ CollapseStep =>
        LET members == last'.info.members \cup {last'.info.group}
            group == last'.info.group
            outside == DOMAIN nodes \ members
        IN /\ outside \subseteq DOMAIN nodes'
           /\ \A x \in outside :
                 /\ <<group, x>> \in edges' <=> \E m \in members : <<m, x>> \in edges
                 /\ <<x, group>> \in edges' <=> \E m \in members : <<x, m>> \in edges
           /\ <<group, group>> \notin edges'
           /\ \A x \in outside, y \in outside : <<x, y>> \in edges' <=> <<x, y>> \in edges
    ]_vars

\* A collapse has given the group an edge from a node outside the cycle and
\* an edge to a node outside the cycle.
C25_Witness ==
  /\ last.op = "AddDependency" /\ last.result = "ok" /\ last.info.collapsed
  /\ \E x \in LiveNodes \ (last.info.members \cup {last.info.group}) :
        <<x, last.info.group>> \in edges
  /\ \E y \in LiveNodes \ (last.info.members \cup {last.info.group}) :
        <<last.info.group, y>> \in edges

\* The files a node carries.
FilesOf(g, id) == IF id \in DOMAIN g.nodes THEN FileBag(g.nodes[id]) ELSE EmptyBag

\* Every file is carried by one node only, once: what the walker hands to
\* the graph, one library per header and per source set.
FilesExclusive ==
  \A id \in LiveNodes : \A f \in BagToSet(FilesOf(Graph, id)) :
     /\ CopiesIn(f, FilesOf(Graph, id)) = 1
     /\ \A other \in LiveNodes \ {id} : f \notin BagToSet(FilesOf(Graph, other))

----------------------------------------------------------------------------
(* The cycle witness *)

\* The nodes reached from the node by a path of no or more edges.
ReachFrom(g, id) == {id} \cup Reach(g.edges, {id}, {})

\* The edges that lie on some directed path from a to b.
OnPath(g, a, b) ==
  {e \in g.edges : e[1] \in ReachFrom(g, a) /\ b \in ReachFrom(g, e[2])}

\* C27: the cycle witness that AddDependency(src, dst) computes, the search
\* from dst to src, is exactly the set of edges that lie on some directed path
\* from dst to src: it is empty iff src is not reached from dst, and no edge
\* off such a path is in it.  It holds for every pair of nodes of every
\* reachable graph.
C27_WitnessIsPathEdges ==
  NoCycle(Graph) =>
    \A src \in LiveNodes, dst \in LiveNodes :
       LET cyclicEdges == edgesFromTo(Graph, dst, src) IN
       /\ cyclicEdges = OnPath(Graph, dst, src)
       /\ cyclicEdges = {} <=> src \notin Reach(edges, {dst}, {})

\* Two paths lead from one node to another, the witness has the edges of both,
\* and the graph has an edge that is on no such path.
C27_Witness ==
  /\ NoCycle(Graph)
  /\ \E src \in LiveNodes, dst \in LiveNodes :
        LET cyclicEdges == edgesFromTo(Graph, dst, src) IN
        /\ Cardinality(cyclicEdges) >= 3
        /\ \E m \in LiveNodes, n \in LiveNodes :
              m # n /\ {<<dst, m>>, <<dst, n>>} \subseteq cyclicEdges
        /\ edges \ cyclicEdges # {}

----------------------------------------------------------------------------
(* Override and remap nodes in the graph *)

IsOverrideOrRemap(g, id) == id \in DOMAIN g.nodes /\ g.nodes[id].kind \notin {"lib", "group"}

EdgeNodes(es) == {e[1] : e \in es} \cup {e[2] : e \in es}

\* C30: in every reachable state no override node and no remap node has an
\* outgoing edge; the cycle witness of every AddDependency call that gets as
\* far as the search holds no override node and no remap node; and no collapse
\* has ended with the error of an unsupported node.
C30_NoEdgeFromOverrideOrRemap ==
  /\ \A e \in edges : ~IsOverrideOrRemap(Graph, e[1])
  /\ NoCycle(Graph) =>
       \A src \in LiveNodes, dst \in LiveNodes :
          shiftIfIsPointer(Graph, src) # 0 =>
             \A id \in EdgeNodes(edgesFromTo(Graph, dst, shiftIfIsPointer(Graph, src))) :
                ~IsOverrideOrRemap(Graph, id)
  /\ (last.op = "AddDependency" /\ last.info.collapsed) => last.result # "error"

\* An AddDependency call whose source is an override node has been made, and
\* an override node is a dependency of a library that a collapse left alone.
C30_Witness ==
  /\ last.op = "AddDependency" /\ last.result = "fatal"
  /\ \E e \in edges : IsOverrideOrRemap(Graph, e[2]) /\ IsPlainLibrary(Graph, e[1])
  /\ \E id \in LiveNodes : IsGroup(Graph, id)
  /\ \E id \in LiveNodes :
        IsOverrideOrRemap(Graph, id) /\ shiftIfIsPointer(Graph, id) = 0

----------------------------------------------------------------------------
(* Edges from a library to itself *)

\* C29: the walker never issues an edge from a library node to itself: no
\* resolved dep that readDepsOnce returns has the node's own label as its
\* destination, so AddDependency(n, n) is never called.
C29_NoSelfEdgeIssued ==
  \A i \in 1..Len(allResolved) : allResolved[i][1] # allResolved[i][2]

----------------------------------------------------------------------------
(* Resolution before the edges *)

\* C28: in the edge-resolution phase no AddDependency call is made before the
\* includes of every library node have been resolved.  While a library is
\* left to read, no resolved dep has been applied, the graph has no edge, no
\* group node and no pointer node, and no step changes the graph or its file
\* index: every resolution decision is taken against the graph as it was
\* after population.
C28_ResolveBeforeEdges ==
  /\ [](pc = "readDeps" =>
          /\ applied = 0
          /\ edges = {}
          /\ \A id \in LiveNodes : ~IsGroup(Graph, id) /\ ~IsPointer(Graph, id))
  /\ [](applied > 0 => toRead = {})
  /\ [][pc = "readDeps" => UNCHANGED gvars]_vars

\* All libraries have been read, more than one of them had includes, and
\* the deps applied so far have collapsed a cycle.
C28_Witness ==
  /\ pc = "addEdges" /\ toRead = {} /\ applied >= 2
  /\ Cardinality({allResolved[i][1] : i \in 1..Len(allResolved)}) >= 2
  /\ \E id \in LiveNodes : IsGroup(Graph, id)

----------------------------------------------------------------------------
(* BUILD files of the SDK directory *)

\* The walk of the SDK directory is over.
WalkOver == pc \notin {"ReadConfig", "addSourceSetFiles", "addFilesAsNodes"}

\* C21: a run that gets past configuration loading removes every BUILD file
\* that was in the SDK directory tree before the run, whatever the
\* configuration (excludes included): once the walk is over no directory
\* holds a BUILD file with the content it had before the run, and none does
\* after a run that returned without error.
C21_BuildFilesRemoved ==
  /\ (world.rc = "ok" /\ WalkOver) => oldBuild = {}
  /\ ret = "ok" => oldBuild = {}

----------------------------------------------------------------------------
(* Source sets *)

\* Population is over and no dep has been applied.
Populated ==
  pc \in {"addOverrideNodes", "addRemapNodes", "readDeps"} \/ (pc = "addEdges" /\ applied = 0)

\* Every header a source set claims is carried by the library of the source
\* set and by no other node, and its per-header library does not exist.
SourceSetCarriesItsHeaders ==
  Populated =>
    \A l \in DOMAIN world.sourceSets : \A h \in world.sourceSets[l].hdrs :
       /\ Node(Graph, l) # 0
       /\ {id \in LiveNodes : h \in BagToSet(FileBag(nodes[id]))} = {Node(Graph, l)}
       /\ IsLibrary(Graph, Node(Graph, l))
       /\ Node(Graph, headerLibrary(h).label) = 0

\* C24: after walker population every header claimed by a source set is
\* carried by exactly one node, the library of the source set, and no
\* per-header library exists for it; and the includes between the files of
\* one source set give no edge: no resolved dep leads from the library of the
\* source set to itself.
C24_SourceSets ==
  /\ SourceSetCarriesItsHeaders
  /\ \A l \in DOMAIN world.sourceSets : <<l, l>> \notin Range(allResolved)

----------------------------------------------------------------------------
(* Label round trip *)

\* A label whose directory is not the workspace itself and whose texts are
\* written with the characters of \w (and slashes in the directory).
IsWordLabel(l) == l.dir # <<".">> /\ IsDirText(l.dir) /\ IsWord(l.name)

\* The round trip of the labels written with the characters of \w.
WordLabelsRoundTrip ==
  /\ (lab.op = "ParseLabel" /\ IsWordLabel(lab.L)) => lab.out = Parsed(lab.L.dir, lab.L.name)
  /\ (lab.op = "ParseRelativeLabel" /\ IsWordLabel(lab.L) /\ IsWordLabel(lab.ctx))
        => lab.out = Parsed(lab.L.dir, lab.L.name)

\* The shortened form //dir parses to the same label as //dir:name.
ShortForm ==
  \A dir \in LabelDirs \ {<<>>} :
     ParseLabel(<<"/", "/">> \o dir) = ParseLabel(<<"/", "/">> \o dir \o <<":">> \o Base(dir))

\* C22: label string forms round-trip.  For every label L that the program
\* creates (of a library, of a file, of an anonymous group, in the workspace
\* root), ParseLabel(L.String()) is L, and for every context label ctx,
\* ParseRelativeLabel(ctx, L.RelativeTo(ctx)) is L; and the shortened form
\* //dir parses to the same label as //dir:name.
C22_RoundTrip ==
  /\ lab.op = "ParseLabel" => lab.out = Parsed(lab.L.dir, lab.L.name)
  /\ lab.op = "ParseRelativeLabel" => lab.out = Parsed(lab.L.dir, lab.L.name)
  /\ ShortForm

----------------------------------------------------------------------------
(* Two runs on the same inputs *)

\* C23: two runs of the pipeline on the same inputs produce the same
\* partition of files into group nodes, the same group-naming outcome, the
\* same hint decision and the same emitted rules, whatever the order in which
\* nodes are enumerated and cycle members are processed and whichever group
\* of a witness survives: when the second run has ended, what it leaves
\* behind is what the first run left behind.
C23_SameOutcome ==
  (first.set /\ Ended) => Outcome = first.outcome

----------------------------------------------------------------------------
(* Pointers in a later collapse *)

\* C31: a pointer library node is never absorbed into a group again: an
\* AddDependency whose cycle witness contains a pointer node returns an
\* error.
C31_PointerNotAbsorbed ==
  [][(/\ last'.op = "AddDependency"
      /\ last'.info.collapsed
      /\ \E id \in last'.info.members : IsPointer(Graph, id))
     => last'.result = "error"]_vars

----------------------------------------------------------------------------
(* Groups and the cycles of the resolved include graph *)

\* The second loop of addDepsAsEdges is through and the run goes on.
AllApplied == Running /\ pc = "addEdges" /\ applied = Len(allResolved)

\* The resolved include graph, over labels, and its common cycles: the
\* labels reach one another (a label is on a cycle when it reaches itself).
ResolvedGraph == {allResolved[i] : i \in 1..Len(allResolved)}
CommonCycle(l1, l2) ==
  l2 \in Reach(ResolvedGraph, {l1}, {}) /\ l1 \in Reach(ResolvedGraph, {l2}, {})

\* The libraries that carried a file when the walk was over: the source
\* sets that claim it and the library of the header it was met with.
OriginalLibraries(f) ==
  {l \in DOMAIN world.sourceSets : f \in world.sourceSets[l].srcs \cup world.sourceSets[l].hdrs}
    \cup {headerLibrary(<<WalkEntries[i].dir, WalkEntries[i].name>>).label :
            i \in {j \in 1..Len(WalkEntries) :
                     /\ Met(world, WalkEntries[j])
                     /\ addFilesAsNodes(world, WalkEntries[j]) = "library"
                     /\ LET lib == headerLibrary(<<WalkEntries[j].dir, WalkEntries[j].name>>)
                        IN f \in BagToSet(lib.srcs (+) lib.hdrs)}}

InOneGroup(f1, f2) ==
  \E id \in RunGroups : {f1, f2} \subseteq BagToSet(FileBag(nodes[id]))

\* C32: after all buffered edges of a run have been applied, two files are
\* carried by the same group node iff the library nodes that originally
\* carried them lie on a common directed cycle of the resolved include
\* graph, and a library on no cycle stays a plain library; the cycles are
\* those of the set of resolved deps, so the partition is the same for
\* every order in which the edges are applied.
C32_GroupsAreCycles ==
  AllApplied =>
    /\ \A f1 \in DiskFiles, f2 \in DiskFiles :
         \A l1 \in OriginalLibraries(f1), l2 \in OriginalLibraries(f2) :
            InOneGroup(f1, f2) <=> CommonCycle(l1, l2)
    /\ \A id \in DOMAIN nodes :
         (IsLibrary(Graph, id) /\ ~CommonCycle(nodes[id].label, nodes[id].label))
           => IsPlainLibrary(Graph, id)

\* All edges of x.h <-> y.h <-> i/z.h are applied: one group carries the
\* three headers, and b/x.h, on no cycle, is still a plain library.
C32_Witness ==
  /\ AllApplied
  /\ \E id \in RunGroups : BagCardinality(nodes[id].hdrs) >= 3
  /\ \E id \in DOMAIN nodes : IsPlainLibrary(Graph, id) /\ nodes[id].hdrs # EmptyBag

----------------------------------------------------------------------------
(* Errors and aborts of the graph operations *)

\* C33: every graph operation that returns an error leaves the graph
\* unchanged: nodes, edges, label index, override bindings and file index.
C33_ErrorLeavesGraph ==
  [][last'.result = "error" => UNCHANGED gvars]_vars

\* C34: AddDependency is total on existing labels: whatever the kind of the
\* source node, and also when src equals dst, the call returns success or
\* an error value and never aborts the program.
C34_AddDependencyTotal ==
  ~(last.op = "AddDependency" /\ last.result = "fatal")

----------------------------------------------------------------------------
(* Library labels in the edge phase *)

\* The next buffered edge names two nodes of the graph, the source a library.
NextEdgeKnown ==
  (Running /\ pc = "addEdges" /\ applied < Len(allResolved)) =>
     /\ IsLibrary(Graph, Node(Graph, allResolved[applied + 1][1]))
     /\ Node(Graph, allResolved[applied + 1][2]) \in DOMAIN nodes

\* A step of the edge phase keeps every library node a library node under
\* its label.
LibrariesKept ==
  \A id \in DOMAIN nodes :
     IsLibrary(Graph, id) =>
        /\ id \in DOMAIN nodes'
        /\ nodes'[id].kind = "lib"
        /\ nodes'[id].label = nodes[id].label
        /\ nodes[id].label \in DOMAIN labelToID'
        /\ labelToID'[nodes[id].label] = id

\* C35: a library node's label stays resolvable for the whole edge phase:
\* Node(L) is a library node (plain or pointer) after any sequence of
\* AddDependency calls and collapses, so applying a buffered edge never
\* fails with an unknown-node error.
C35_LibraryLabelsStay ==
  /\ []NextEdgeKnown
  /\ [][pc = "addEdges" => LibrariesKept]_vars

\* Buffered edges remain to be applied after a collapse has made pointers
\* of two libraries.
C35_Witness ==
  /\ Running /\ pc = "addEdges" /\ applied < Len(allResolved)
  /\ \E id \in DOMAIN nodes : IsPointer(Graph, id)
  /\ IsPointer(Graph, Node(Graph, allResolved[applied + 1][1]))

----------------------------------------------------------------------------
(* Termination of AddDependency *)

\* The calls of AddDependency that get as far as the back-path search, with
\* the node the search starts at and the node it looks for.
Searches ==
  { [from |-> LabelID(Graph, in[2]), to |-> shiftIfIsPointer(Graph, LabelID(Graph, in[1]))] :
      in \in { x \in DepInputs :
                 /\ LabelID(Graph, x[1]) \in DOMAIN nodes
                 /\ LabelID(Graph, x[2]) \in DOMAIN nodes
                 /\ shiftIfIsPointer(Graph, LabelID(Graph, x[1])) # 0
                 /\ <<LabelID(Graph, x[1]), LabelID(Graph, x[2])>> \notin edges } }

\* C36: every AddDependency call terminates in every reachable state: the
\* recursive back-path search, which keeps no visited set, returns, with
\* calls nested no deeper than there are nodes, because the graph it walks
\* is acyclic (the collapse loops range over the finite witness).
C36_SearchReturns ==
  \A s \in Searches : edgesFromToReturns(Graph, s.from, s.to, Cardinality(DOMAIN nodes))

\* AddDependency has returned and a search is possible that nests three
\* calls before it returns.
C36_Witness ==
  /\ last.op = "AddDependency" /\ last.result = "ok"
  /\ \E s \in Searches :
        /\ ~edgesFromToReturns(Graph, s.from, s.to, 1)
        /\ edgesFromToReturns(Graph, s.from, s.to, Cardinality(DOMAIN nodes))

----------------------------------------------------------------------------
(* The unnamed-groups hint and the group namer *)

\* C37: the unnamed-groups hint and the group namer use the same key: for
\* every unnamed group the (first_hdr, last_hdr) pair written into the
\* hint's named_groups record equals the (first, last) pair NameGroups
\* computes for that group.
C37_HintKeyIsNamerKey ==
  hintFile = "unnamedGroups" =>
    \A r \in unnamedGroupsHint(Graph, unnamedGroups) :
       <<r.first_hdr, r.last_hdr>> = groupKey(nodes[r.group])

----------------------------------------------------------------------------
(* The size of the groups *)

\* C38: in every pipeline run every group node carries at least two headers
\* when the naming phase starts, so NameGroups never fails with the
\* too-small-group error.
C38_GroupsHaveTwoHeaders ==
  /\ (pc = "NameGroups" => \A id \in toName : lenHdrs(nodes[id]) >= 2)
  /\ ~(last.op = "NameGroups" /\ last.result = "error")

====
